---- MODULE Spec2Model ----
(***************************************************************************)
(* Deep-link translation of web URLs (universal-app-opener, packages/core). *)
(* The three platform handlers under src/packages/core/src/platforms        *)
(* (youtube.ts, zoom.ts, googlemaps.ts) are modelled operator by operator:  *)
(* every regular expression is an operator over strings that returns what   *)
(* the ECMAScript matcher returns (leftmost match, ordered alternation,     *)
(* greedy quantifiers with backtracking), and every template literal is a   *)
(* concatenation.                                                           *)
(*                                                                          *)
(* A string of the program is the sequence of its UTF-16 code units, each a *)
(* number in 0..65535, so that every character the code can meet or produce *)
(* (control characters, the grave accent, non-ASCII text) has a value.      *)
(* Str("abc") is the string of a literal: <<97, 98, 99>>.                   *)
(*                                                                          *)
(* A Number of the program is modelled where the handlers compute one: a    *)
(* non-negative integer-valued double, held as its decimal digits (most     *)
(* significant first), or Infinity, with IEEE 754 round-to-nearest-even.    *)
(* convertZoom reads a decimal with parseFloat and takes a logarithm: its   *)
(* result is modelled by the doubles at which the computation in doubles    *)
(* changes its value.                                                       *)
(*                                                                          *)
(* `new URL` is modelled by the URL standard's parser.  Where it hands a    *)
(* host label to domain-to-ASCII that needs the Unicode tables of the       *)
(* runtime (a label beyond ASCII or one that starts with "xn--"), the       *)
(* answer of the runtime is the state variable domainToAscii.               *)
(***************************************************************************)
EXTENDS Integers, Sequences, FiniteSets, TLC

VARIABLES
    input,       \* the URL the caller passed to the first translate call
    url,         \* the URL of the current translate call
    order,       \* the registry order of the three platform handlers
    pc,          \* "ready": translate(url) not yet run; "done": result returned
    handler,     \* the handler whose match accepted url ("" before the call)
    result,      \* the DeepLinkResult of the current call
    prevUrl,     \* the URL of the previous call (empty in the first round)
    prevResult,  \* the DeepLinkResult of the previous call
    round,       \* number of the current translate call, from 1
    domainToAscii \* the runtime's answer when `new URL` has a host label to look up

vars == <<input, url, order, pc, handler, result, prevUrl, prevResult, round, domainToAscii>>

(***************************************************************************)
(* Characters and strings                                                   *)
(***************************************************************************)

\* The printable ASCII characters in code order, codes 32 to 126; a space
\* holds the place of code 96, the grave accent, which no literal here
\* can contain.
Printable ==
    " !\"#$%&'()*+,-./0123456789:;<=>?@ABCDEFGHIJKLMNOPQRSTUVWXYZ[\\]^_ abcdefghijklmnopqrstuvwxyz{|}~"

\* The code unit of a character a literal of this module is written with.
CharCodes ==
    [c \in {SubSeq(Printable, i, i) : i \in 1..95} |->
        31 + CHOOSE i \in (1..95) \ {65} : SubSeq(Printable, i, i) = c]

CharCode(c) == CharCodes[c]

\* The sequence a function on 1..n is, in the representation the sequence
\* operators build.
Tuple(f) == SubSeq(f, 1, Len(f))

\* The string (code units) of a literal.
Str(lit) == Tuple([i \in 1..Len(lit) |-> CharCode(SubSeq(lit, i, i))])

\* The set of the code units of the characters of a literal: a character class.
Chars(lit) == {CharCode(SubSeq(lit, i, i)) : i \in 1..Len(lit)}

\* `null` of a DeepLinkResult's ios/android field and of a function result
\* of type string | null: no string, since -1 is no code unit.
Null == <<-1>>

\* \d : the codes of "0" to "9"
Digits == 48..57

\* [a-z] : the codes of "a" to "z"
Lower == 97..122

\* [A-Z] : the codes of "A" to "Z"
Upper == 65..90

\* [a-zA-Z0-9]
AlNum == Lower \cup Upper \cup Digits

\* [a-zA-Z0-9_-]
IdChars == AlNum \cup Chars("_-")

\* The upper-case hexadecimal digits, by value + 1.
HexDigits == Str("0123456789ABCDEF")

\* The code unit at index i (from 1), -1 outside the string.
Char(s, i) == IF i >= 1 /\ i <= Len(s) THEN s[i] ELSE -1

\* The text from index i to the end.
From(s, i) == SubSeq(s, i, Len(s))

\* Whether the string p occurs in s at index i.
At(s, i, p) == i >= 1 /\ i + Len(p) - 1 <= Len(s) /\ SubSeq(s, i, i + Len(p) - 1) = p

StartsWith(s, p) == At(s, 1, p)

EndsWith(s, p) == Len(p) <= Len(s) /\ At(s, Len(s) - Len(p) + 1, p)

Contains(s, p) == \E i \in 1..Len(s) : At(s, i, p)

Min(S) == CHOOSE k \in S : \A j \in S : k <= j

\* Index of the first occurrence of p in s at or after index i, 0 if none.
IndexFrom(s, p, i) ==
    IF \E k \in i..Len(s) : At(s, k, p) THEN Min({k \in i..Len(s) : At(s, k, p)}) ELSE 0

\* A character class: membership in `set`, complemented when neg (as [^...]).
InClass(c, set, neg) == (c \in set) # neg

\* A greedy run `[class]*` from index i: the first index after the run.
RunEnd(s, i, set, neg) ==
    IF i < 1 \/ i > Len(s) THEN i
    ELSE Min({j \in i..(Len(s) + 1) : j > Len(s) \/ ~InClass(s[j], set, neg)})

\* The group of a `+` run from index a that ends before index e: NoMatch if
\* the run is empty.
Captured(s, a, e) == IF e > a THEN <<SubSeq(s, a, e - 1)>> ELSE <<>>

\* The groups of two parts of a pattern that follow each other: NoMatch if
\* one of them does not match.
Both(g, h) == IF g = <<>> \/ h = <<>> THEN <<>> ELSE g \o h

\* The first entry of m that is a match (is not `none`), `none` if there is
\* none: of the matches at each start index, the leftmost.
First(m, none) ==
    IF \A p \in 1..Len(m) : m[p] = none THEN none
    ELSE m[Min({p \in 1..Len(m) : m[p] # none})]

\* Value of a hexadecimal digit (either case), -1 if c is none.
HexVal(c) ==
    IF c >= 48 /\ c <= 57 THEN c - 48
    ELSE IF c >= 65 /\ c <= 70 THEN c - 55
    ELSE IF c >= 97 /\ c <= 102 THEN c - 87
    ELSE -1

\* Whether "%XX" with two hexadecimal digits stands at index i.
PctAt(s, i) ==
    /\ i >= 1 /\ i + 2 <= Len(s)
    /\ s[i] = 37
    /\ HexVal(s[i + 1]) >= 0
    /\ HexVal(s[i + 2]) >= 0

PctByte(s, i) == 16 * HexVal(s[i + 1]) + HexVal(s[i + 2])

\* White space and line terminators, as String.prototype.trim removes them:
\* TAB LF VT FF CR SP NBSP, U+1680, U+2000..U+200A, U+2028, U+2029, U+202F,
\* U+205F, U+3000, U+FEFF.
WhiteSpace ==
    {9, 10, 11, 12, 13, 32, 160, 5760, 8232, 8233, 8239, 8287, 12288, 65279}
    \cup (8192..8202)

\* Line terminators, which `.` of a regular expression does not match.
LineTerminators == {10, 13, 8232, 8233}

Max(S) == CHOOSE k \in S : \A j \in S : j <= k

TrimEnd(s) == SubSeq(s, 1, Max({i \in 0..Len(s) : i = 0 \/ s[i] \notin WhiteSpace}))

Trim(s) == TrimEnd(From(s, RunEnd(s, 1, WhiteSpace, FALSE)))

\* The result of a match that failed (`null`), and a capture group that did
\* not take part in a match (`undefined`).  No group modelled as Undefined
\* can capture the empty string: each is a `+` repetition.
NoMatch == <<>>

Undefined == <<>>

\* `(?:[set]|$)` at index j.
TermOk(s, j, set) == j > Len(s) \/ Char(s, j) \in set

\* `[a-zA-Z0-9_-]{11}` at index i.
IdAt(s, i) == i >= 1 /\ i + 10 <= Len(s) /\ \A k \in i..(i + 10) : s[k] \in IdChars

(***************************************************************************)
(* Numbers.  The handlers compute with the digits of \d+ captures only, so  *)
(* every Number here is a non-negative integer-valued double or Infinity.   *)
(* A finite one is the sequence of its decimal digits, most significant     *)
(* first, without leading zeros (<<0>> is zero).                            *)
(***************************************************************************)

Infinity == <<-1>>

NaN == <<-2>>

Zero == <<0>>

\* The digits of d without leading zeros.
StripZeros(d) ==
    LET nz == {i \in 1..Len(d) : d[i] # 0}
    IN  IF nz = {} THEN Zero ELSE SubSeq(d, Min(nz), Len(d))

\* Digits of a TLC integer n >= 0.
RECURSIVE NumOf(_)
NumOf(n) == IF n < 10 THEN <<n>> ELSE Append(NumOf(n \div 10), n % 10)

\* Digit i of a written with n digits (zeros before its first).
Digit(a, n, i) == IF i > n - Len(a) THEN a[i - (n - Len(a))] ELSE 0

\* The exact sum of two finite numbers.  A position receives a carry when
\* the nearest lower position whose digits do not sum to 9 sums to 10 or
\* more.
DAdd(a, b) ==
    IF a = Zero THEN b
    ELSE IF b = Zero THEN a
    ELSE
        LET n == (IF Len(a) > Len(b) THEN Len(a) ELSE Len(b)) + 1
            s(i) == Digit(a, n, i) + Digit(b, n, i)
            carry(i) == \E j \in (i + 1)..n :
                            s(j) >= 10 /\ \A k \in (i + 1)..(j - 1) : s(k) = 9
        IN  StripZeros(Tuple([i \in 1..n |-> (s(i) + (IF carry(i) THEN 1 ELSE 0)) % 10]))

\* The exact difference of two finite numbers, a >= b.  A position lends
\* when the nearest lower position whose digits differ has the smaller
\* digit in a.
DSub(a, b) ==
    IF b = Zero THEN a
    ELSE
        LET n == Len(a)
            d(i) == a[i] - Digit(b, n, i)
            borrow(i) == \E j \in (i + 1)..n :
                             d(j) < 0 /\ \A k \in (i + 1)..(j - 1) : d(k) = 0
        IN  StripZeros(Tuple([i \in 1..n |->
                (d(i) - (IF borrow(i) THEN 1 ELSE 0) + 10) % 10]))

\* a * 2: a digit of 5 or more carries one into the next higher position.
Double2(a) ==
    IF a = Zero THEN Zero
    ELSE StripZeros(Tuple([i \in 1..(Len(a) + 1) |->
             (2 * Digit(a, Len(a) + 1, i)
              + (IF i <= Len(a) /\ a[i] >= 5 THEN 1 ELSE 0)) % 10]))

\* floor(a / 2): an odd digit hands 10 to the next lower position.
DHalf(a) ==
    IF a = Zero THEN Zero
    ELSE StripZeros(Tuple([i \in 1..Len(a) |->
             ((IF i > 1 /\ a[i - 1] % 2 = 1 THEN 10 ELSE 0) + a[i]) \div 2]))

\* a * 2^e and floor(a / 2^e), by halving e.
RECURSIVE DShift(_, _)
DShift(a, e) ==
    IF e = 0 \/ a = Zero THEN a
    ELSE IF e = 1 THEN Double2(a)
    ELSE DShift(DShift(a, e \div 2), e - e \div 2)

RECURSIVE DShiftDown(_, _)
DShiftDown(a, e) ==
    IF e = 0 \/ a = Zero THEN a
    ELSE IF e = 1 THEN DHalf(a)
    ELSE DShiftDown(DShiftDown(a, e \div 2), e - e \div 2)

\* a * 10^e.
DShift10(a, e) == IF a = Zero THEN Zero ELSE a \o Tuple([i \in 1..e |-> 0])

\* The exact product of a finite number and a digit d: the sum of a, 2a, 4a
\* and 8a that the bits of d select.
DMulDigit(a, d) ==
    DAdd(DAdd(IF d % 2 = 1 THEN a ELSE Zero,
              IF (d \div 2) % 2 = 1 THEN Double2(a) ELSE Zero),
         DAdd(IF (d \div 4) % 2 = 1 THEN Double2(Double2(a)) ELSE Zero,
              IF d \div 8 = 1 THEN Double2(Double2(Double2(a))) ELSE Zero))

\* The exact product of a finite number and the digits b, by halves of b.
RECURSIVE DMul(_, _)
DMul(a, b) ==
    IF Len(b) = 1 THEN DMulDigit(a, b[1])
    ELSE DAdd(DShift10(DMul(a, SubSeq(b, 1, Len(b) \div 2)), Len(b) - Len(b) \div 2),
              DMul(a, SubSeq(b, Len(b) \div 2 + 1, Len(b))))

\* a < b for finite numbers.
DLess(a, b) ==
    \/ Len(a) < Len(b)
    \/ /\ Len(a) = Len(b)
       /\ \E i \in 1..Len(a) : a[i] < b[i] /\ \A j \in 1..(i - 1) : a[j] = b[j]

\* 2^53: up to it every integer is a double.
Pow53 == <<9, 0, 0, 7, 1, 9, 9, 2, 5, 4, 7, 4, 0, 9, 9, 2>>

\* The least e in lo..hi with a < 2^(53 + e), for a that is below
\* 2^(53 + hi): the exponent of the double a rounds to.
RECURSIVE ExponentOf(_, _, _)
ExponentOf(a, lo, hi) ==
    IF lo = hi THEN lo
    ELSE IF DLess(a, DShift(Pow53, (lo + hi) \div 2)) THEN ExponentOf(a, lo, (lo + hi) \div 2)
    ELSE ExponentOf(a, (lo + hi) \div 2 + 1, hi)

\* The significand of the double nearest to a >= 2^53 with exponent e >= 1:
\* floor(a / 2^e), plus one when the bits dropped are more than half a unit,
\* or are half a unit and the floor is odd (round to nearest, ties to even).
RoundSig(a, e) ==
    LET q == DShiftDown(a, e)
        r == DShiftDown(a, e - 1)
        rnd == r[Len(r)] % 2 = 1
        sticky == DShift(r, e - 1) # a
    IN  IF rnd /\ (sticky \/ q[Len(q)] % 2 = 1) THEN DAdd(q, <<1>>) ELSE q

\* The double with significand sig and exponent e: Infinity from 2^1024 on.
DoubleOf(sig, e) ==
    IF e > 971 \/ (e = 971 /\ sig = Pow53) THEN Infinity ELSE DShift(sig, e)

\* The double nearest to a >= 2^53, given its exponent.
RoundAt(a, e) == DoubleOf(RoundSig(a, e), e)

\* The double nearest to the non-negative integer a (ties to even).  An
\* integer of n digits is at least 10^(n-1) > 2^(3(n-1)) and below
\* 10^n < 2^(10 * ceiling(n/3)), which bounds its exponent; the largest
\* finite double has 309 digits and is below 2^1024.
RoundToDouble(a) ==
    IF DLess(a, Pow53) THEN a
    ELSE IF Len(a) > 309 THEN Infinity
    ELSE RoundAt(a, ExponentOf(a, IF 3 * Len(a) > 56 THEN 3 * Len(a) - 55 ELSE 1,
                               10 * ((Len(a) + 2) \div 3) - 53))

\* x * k and x + y of doubles (k a small integer constant of the code).
NumMul(x, k) == IF x = Infinity THEN Infinity ELSE RoundToDouble(DMul(x, NumOf(k)))

NumAdd(x, y) ==
    IF x = Infinity \/ y = Infinity THEN Infinity ELSE RoundToDouble(DAdd(x, y))

\* x > 0 and x < 0 of a Number (a comparison with NaN is false).
NumPos(x) == x # NaN /\ x # Zero

NumNeg(x) == FALSE

\* isNaN(x)
isNaN(x) == x = NaN

\* The exact integer a string of decimal digits stands for.
DigitsOf(s) == StripZeros(Tuple([i \in 1..Len(s) |-> s[i] - 48]))

\* parseInt(s, 10) of a string of decimal digits (what `(\d+)` captures);
\* NaN for the empty string.
ParseInt(s) == IF s = <<>> THEN NaN ELSE RoundToDouble(DigitsOf(s))

\* a with the digits after the first k replaced by zeros, and that plus one
\* unit of digit k: the two k-digit decimals around a.
RoundDown(a, k) == Tuple([i \in 1..Len(a) |-> IF i <= k THEN a[i] ELSE 0])

RoundUp(a, k) == DAdd(RoundDown(a, k), DShift10(<<1>>, Len(a) - k))

\* Whether the k-digit decimals around the double x read back as x, and the
\* one Number::toString takes: the closer to x, the even one on a tie.
ReadsBack(x, c) == RoundToDouble(c) = x

ShortestAt(x, k) ==
    LET down == RoundDown(x, k)
        up == RoundUp(x, k)
        okDown == ReadsBack(x, down)
        okUp == ReadsBack(x, up)
        below == DSub(x, down)
        above == DSub(up, x)
    IN  IF okDown /\ okUp
        THEN (IF DLess(below, above) THEN down
              ELSE IF DLess(above, below) THEN up
              ELSE IF x[k] % 2 = 0 THEN down
              ELSE up)
        ELSE IF okDown THEN down
        ELSE IF okUp THEN up
        ELSE <<>>

\* The least number of significant digits in lo..hi with which a decimal
\* reads back as x (if k digits do, so do more).
RECURSIVE LeastDigits(_, _, _)
LeastDigits(x, lo, hi) ==
    IF lo = hi THEN lo
    ELSE IF ShortestAt(x, (lo + hi) \div 2) # <<>> THEN LeastDigits(x, lo, (lo + hi) \div 2)
    ELSE LeastDigits(x, (lo + hi) \div 2 + 1, hi)

\* The decimal with the fewest significant digits that reads back as x; a
\* double always reads back from 17 digits.
Shortest(x) == ShortestAt(x, LeastDigits(x, 1, IF Len(x) < 17 THEN Len(x) ELSE 17))

\* The digits of d without its trailing zeros.
StripTrailing(d) ==
    LET nz == {i \in 1..Len(d) : d[i] # 0}
    IN  IF nz = {} THEN Zero ELSE SubSeq(d, 1, CHOOSE i \in nz : \A j \in nz : j <= i)

DigitStr(d) == Tuple([i \in 1..Len(d) |-> d[i] + 48])

\* Number::toString of a decimal d of at most 21 digits: the digits; of a
\* longer one: "<digit>[.<digits>]e+<exponent>".
Notation(d) ==
    IF Len(d) <= 21 THEN DigitStr(d)
    ELSE <<d[1] + 48>>
         \o (IF Len(StripTrailing(d)) > 1
             THEN <<46>> \o DigitStr(Tail(StripTrailing(d))) ELSE <<>>)
         \o <<101, 43>> \o DigitStr(NumOf(Len(d) - 1))

\* String(x) and `${x}` of a Number.
NumberToString(x) ==
    IF x = NaN THEN <<78, 97, 78>>
    ELSE IF x = Infinity THEN <<73, 110, 102, 105, 110, 105, 116, 121>>
    ELSE IF DLess(x, Pow53) THEN DigitStr(x)
    ELSE Notation(Shortest(x))

(***************************************************************************)
(* youtube.ts                                                               *)
(***************************************************************************)

\* /(?:youtube\.com|m\.youtube\.com)\/watch\?(?:.*&)?v=([a-zA-Z0-9_-]{11})(?:&|$)/
\* Both host alternatives end in "youtube.com", so the match exists exactly
\* when "youtube.com/watch?" occurs.  From the end a of that literal, the
\* greedy `(?:.*&)?` is tried first with the longest `.*` (the last "&" that
\* is followed by "v=<id>" and a terminator), and skipped only if none works.
\* `.` does not match a line terminator.

\* `v=([a-zA-Z0-9_-]{11})(?:&|$)` at index q.
WatchIdOk(s, q) == At(s, q, Str("v=")) /\ IdAt(s, q + 2) /\ TermOk(s, q + 13, Chars("&"))

\* The greatest index after a where "v=<id>" stands behind `.*&`, 0 if none.
LastViaAmp(s, a) ==
    Max({0} \cup {q \in (a + 1)..Len(s) :
                     /\ s[q - 1] = 38
                     /\ \A k \in a..(q - 2) : s[k] \notin LineTerminators
                     /\ WatchIdOk(s, q)})

\* The index of the "v=" the match uses, given that index: 0 if none.
WatchIdIndex(s, a, viaAmp) ==
    IF viaAmp > 0 THEN viaAmp ELSE IF WatchIdOk(s, a) THEN a ELSE 0

\* The id after the "v=" at index q (Null for q = 0).
WatchId(s, q) == IF q = 0 THEN Null ELSE SubSeq(s, q + 2, q + 12)

\* Group 1 of the match whose literal starts at index p, Null if none.
WatchIdAt(s, p) ==
    IF At(s, p, Str("youtube.com/watch?"))
    THEN WatchId(s, WatchIdIndex(s, p + 18, LastViaAmp(s, p + 18)))
    ELSE Null

watchMatch(s) == First(Tuple([p \in 1..Len(s) |-> WatchIdAt(s, p)]), Null)

\* /<lit>([a-zA-Z0-9_-]{11})(?:[?&#]|$)/ for the literals "youtu.be/",
\* "youtube.com/shorts/", "youtube.com/embed/" and "youtube.com/live/" (the
\* optional "www." before an unanchored literal changes no capture).
PathIdAt(s, lit, p) ==
    IF At(s, p, lit) /\ IdAt(s, p + Len(lit)) /\ TermOk(s, p + Len(lit) + 11, Chars("?&#"))
    THEN SubSeq(s, p + Len(lit), p + Len(lit) + 10)
    ELSE Null

pathIdMatch(s, lit) == First(Tuple([p \in 1..Len(s) |-> PathIdAt(s, lit, p)]), Null)

\* The capture of the first of the five patterns that matches.
extractYouTubeVideoId(s) ==
    First(<<watchMatch(s),
            pathIdMatch(s, Str("youtu.be/")),
            pathIdMatch(s, Str("youtube.com/shorts/")),
            pathIdMatch(s, Str("youtube.com/embed/")),
            pathIdMatch(s, Str("youtube.com/live/"))>>, Null)

\* `(?:\d+<u>)?` at index i, the digits from i ending before e: the index
\* after the unit if the unit letter follows a digit, else i (the optional
\* group matches empty).
OptUnitEnd(s, i, u, e) == IF e > i /\ At(s, e, u) THEN e + 1 ELSE i

OptUnit(s, i, u) == OptUnitEnd(s, i, u, RunEnd(s, i, Digits, FALSE))

\* /[?&]t=((?:\d+h)?(?:\d+m)?(?:\d+s)?|\d+)/ : group 1 of the leftmost match.
\* The first alternative matches at every "[?&]t=" (each unit is optional),
\* and nothing follows the group, so the matcher never backtracks into the
\* second alternative `\d+`: the capture is what the three optional units
\* consume, which is empty when bare digits follow "t=".
UnitsAt(s, a) ==
    SubSeq(s, a, OptUnit(s, OptUnit(s, OptUnit(s, a, Str("h")), Str("m")), Str("s")) - 1)

tMatchAt(s, p) ==
    IF s[p] \in Chars("?&") /\ At(s, p + 1, Str("t=")) THEN <<UnitsAt(s, p + 3)>> ELSE NoMatch

tMatchGroup(s) == First(Tuple([p \in 1..Len(s) |-> tMatchAt(s, p)]), NoMatch)

\* /[?&]start=(\d+)/ : group 1 of the leftmost match.
startMatchAt(s, p) ==
    IF s[p] \in Chars("?&") /\ At(s, p + 1, Str("start="))
    THEN Captured(s, p + 7, RunEnd(s, p + 7, Digits, FALSE))
    ELSE NoMatch

startMatchGroup(s) == First(Tuple([p \in 1..Len(s) |-> startMatchAt(s, p)]), NoMatch)

\* extractTimestamp, given the two matches: group 1 of the "t=" match if it
\* is not empty, else that of the "start=" match, else null.
TimestampOf(tMatch, startMatch) ==
    IF tMatch # NoMatch /\ tMatch[1] # <<>> THEN tMatch[1]
    ELSE IF startMatch # NoMatch THEN startMatch[1]
    ELSE Null

extractTimestamp(s) == TimestampOf(tMatchGroup(s), startMatchGroup(s))

\* /(\d+)<u>/ at index p, the digits from p ending before e.
UnitAt(s, p, u, e) == IF e > p /\ At(s, e, u) THEN <<SubSeq(s, p, e - 1)>> ELSE NoMatch

\* /(\d+)<u>/ : group 1 of the leftmost match, NoMatch if none.
unitMatch(s, u) ==
    First(Tuple([p \in 1..Len(s) |-> UnitAt(s, p, u, RunEnd(s, p, Digits, FALSE))]), NoMatch)

\* hours * 3600 + minutes * 60 + seconds, each operation rounded to a double.
TotalSeconds(hours, minutes, seconds) ==
    IF isNaN(hours) \/ isNaN(minutes) \/ isNaN(seconds) THEN Zero
    ELSE IF NumNeg(hours) \/ NumNeg(minutes) \/ NumNeg(seconds) THEN Zero
    ELSE NumAdd(NumAdd(NumMul(hours, 3600), NumMul(minutes, 60)), seconds)

\* The value parseTimestampToSeconds returns for a trimmed, non-empty text
\* that is not all digits, given its three unit matches.
UnitSeconds(hoursMatch, minutesMatch, secondsMatch) ==
    IF hoursMatch = NoMatch /\ minutesMatch = NoMatch /\ secondsMatch = NoMatch THEN Zero
    ELSE TotalSeconds(IF hoursMatch # NoMatch THEN ParseInt(hoursMatch[1]) ELSE Zero,
                      IF minutesMatch # NoMatch THEN ParseInt(minutesMatch[1]) ELSE Zero,
                      IF secondsMatch # NoMatch THEN ParseInt(secondsMatch[1]) ELSE Zero)

\* `isNaN(seconds) ? 0 : seconds`
NumOrZero(seconds) == IF isNaN(seconds) THEN Zero ELSE seconds

\* The value parseTimestampToSeconds returns for the trimmed text.
TrimmedSeconds(trimmed) ==
    IF trimmed = <<>> THEN Zero
    ELSE IF RunEnd(trimmed, 1, Digits, FALSE) > Len(trimmed) THEN NumOrZero(ParseInt(trimmed))
    ELSE UnitSeconds(unitMatch(trimmed, Str("h")), unitMatch(trimmed, Str("m")),
                     unitMatch(trimmed, Str("s")))

parseTimestampToSeconds(timestamp) == TrimmedSeconds(Trim(timestamp))

\* youtubeHandler.match, given the extracted id.
IdMatch(u, id) == IF id = Null THEN NoMatch ELSE <<u, id>>

youtubeMatch(u) == IdMatch(u, extractYouTubeVideoId(u))

\* The value youtubeHandler.build returns, given the text appended to both
\* links.
youtubeResult(webUrl, videoId, timestampParam) ==
    [webUrl   |-> webUrl,
     ios      |-> Str("vnd.youtube://watch?v=") \o videoId \o timestampParam,
     android  |-> Str("intent://watch?v=") \o videoId \o timestampParam
                  \o Str("#Intent;scheme=vnd.youtube;package=com.google.android.youtube;end"),
     platform |-> "youtube"]

\* `&t=${seconds}s`
TimestampParam(seconds) == Str("&t=") \o NumberToString(seconds) \o Str("s")

\* Mutant of youtubeBuild: the timestamp is appended when seconds >= 0.
youtubeBuildZeroAppended(webUrl, match) ==
    youtubeResult(webUrl, match[2],
        IF extractTimestamp(webUrl) # Null /\ extractTimestamp(webUrl) # <<>>
        THEN TimestampParam(parseTimestampToSeconds(extractTimestamp(webUrl)))
        ELSE <<>>)

\* The text build appends for the seconds of a timestamp: the parameter if
\* they are positive.
PositiveParam(seconds) == IF NumPos(seconds) THEN TimestampParam(seconds) ELSE <<>>

\* The text build appends for an extracted timestamp: nothing if it is
\* falsy (null or empty).
TimestampSuffix(timestamp) ==
    IF timestamp # Null /\ timestamp # <<>>
    THEN PositiveParam(parseTimestampToSeconds(timestamp))
    ELSE <<>>

youtubeBuild(webUrl, match) ==
    youtubeResult(webUrl, match[2], TimestampSuffix(extractTimestamp(webUrl)))

(***************************************************************************)
(* zoom.ts                                                                  *)
(***************************************************************************)

\* Index after the "http://" or "https://" a string starts with, 0 if
\* neither: /^https?:\/\//.
SchemeEnd(u) ==
    IF StartsWith(u, Str("https://")) THEN 9
    ELSE IF StartsWith(u, Str("http://")) THEN 8
    ELSE 0

\* /^https?:\/\/(?:[a-z0-9-]+\.)?zoom\.us\/j\/(\d+)(?:\?pwd=([a-zA-Z0-9]+))?/

\* The groups, given the index a of the id, the index b after it and the
\* index c after the run of [a-zA-Z0-9] that follows "?pwd=".
ZoomGroups(u, a, b, c) ==
    IF c > b + 5
    THEN <<SubSeq(u, 1, c - 1), SubSeq(u, a, b - 1), SubSeq(u, b + 5, c - 1)>>
    ELSE <<SubSeq(u, 1, b - 1), SubSeq(u, a, b - 1), Undefined>>

\* `(\d+)(?:\?pwd=([a-zA-Z0-9]+))?` from index a (0: the host did not
\* match), the digits ending before b.
ZoomIdAt(u, a, b) ==
    IF a = 0 \/ b = a THEN NoMatch
    ELSE IF At(u, b, Str("?pwd=")) THEN ZoomGroups(u, a, b, RunEnd(u, b + 5, AlNum, FALSE))
    ELSE ZoomGroups(u, a, b, 0)

\* `(?:[a-z0-9-]+\.)?zoom\.us\/j\/` at index h (after "://"), sub being the
\* end of the run of [a-z0-9-] from h: the index after it, 0 if it does not
\* match.  The optional subdomain is tried first: a run of [a-z0-9-] can
\* only be followed by "." at its greedy end.
ZoomHostEnd(u, h, sub) ==
    IF h = 0 THEN 0
    ELSE IF sub > h /\ At(u, sub, Str(".zoom.us/j/")) THEN sub + 11
    ELSE IF At(u, h, Str("zoom.us/j/")) THEN h + 10
    ELSE 0

\* The index of the meeting id, 0 if the URL does not match up to it.
ZoomIdStart(u, h) ==
    ZoomHostEnd(u, h, RunEnd(u, h, Lower \cup Digits \cup Chars("-"), FALSE))

ZoomFrom(u, a) == ZoomIdAt(u, a, RunEnd(u, a, Digits, FALSE))

zoomMatch(u) == ZoomFrom(u, ZoomIdStart(u, SchemeEnd(u)))

\* Mutant of zoomBuild: the password segment is appended unconditionally.
zoomBuildAlwaysPwd(webUrl, match) ==
    LET deepLinkParams == Str("confno=") \o match[2] \o Str("&pwd=") \o match[3]
    IN  [webUrl   |-> webUrl,
         ios      |-> Str("zoomus://zoom.us/join?") \o deepLinkParams,
         android  |-> Str("intent://zoom.us/join?") \o deepLinkParams
                      \o Str("#Intent;scheme=zoomus;package=us.zoom.videomeetings;end"),
         platform |-> "zoom"]

zoomBuild(webUrl, match) ==
    LET meetingId == match[2]
        password == IF match[3] # Undefined THEN match[3] ELSE <<>>
        deepLinkParams ==
            Str("confno=") \o meetingId
            \o (IF password # <<>> THEN Str("&pwd=") \o password ELSE <<>>)
    IN  [webUrl   |-> webUrl,
         ios      |-> Str("zoomus://zoom.us/join?") \o deepLinkParams,
         android  |-> Str("intent://zoom.us/join?") \o deepLinkParams
                      \o Str("#Intent;scheme=zoomus;package=us.zoom.videomeetings;end"),
         platform |-> "zoom"]

(***************************************************************************)
(* Platform functions used by googlemaps.ts: UTF-8, encodeURIComponent,     *)
(* decodeURIComponent, URL and URLSearchParams                              *)
(***************************************************************************)

\* High and low surrogate code units.
IsHigh(c) == c >= 55296 /\ c <= 56319

IsLow(c) == c >= 56320 /\ c <= 57343

\* The code point of a surrogate pair.
PairPoint(hi, lo) == 65536 + (hi - 55296) * 1024 + (lo - 56320)

\* The UTF-16 code units of a code point.
Utf16Of(cp) ==
    IF cp < 65536 THEN <<cp>>
    ELSE <<55296 + ((cp - 65536) \div 1024), 56320 + ((cp - 65536) % 1024)>>

\* The UTF-8 bytes of a code point.
Utf8Of(cp) ==
    IF cp < 128 THEN <<cp>>
    ELSE IF cp < 2048 THEN <<192 + (cp \div 64), 128 + (cp % 64)>>
    ELSE IF cp < 65536
         THEN <<224 + (cp \div 4096), 128 + ((cp \div 64) % 64), 128 + (cp % 64)>>
    ELSE <<240 + (cp \div 262144), 128 + ((cp \div 4096) % 64),
           128 + ((cp \div 64) % 64), 128 + (cp % 64)>>

\* The concatenation of the strings of a sequence, by halves.
RECURSIVE Flatten(_)
Flatten(ps) ==
    IF Len(ps) = 0 THEN <<>>
    ELSE IF Len(ps) = 1 THEN ps[1]
    ELSE Flatten(SubSeq(ps, 1, Len(ps) \div 2))
         \o Flatten(SubSeq(ps, Len(ps) \div 2 + 1, Len(ps)))

\* "%XX" of each byte, in upper-case hexadecimal digits.
PctEncode(bytes) ==
    Flatten(Tuple([k \in 1..Len(bytes) |->
        <<37, HexDigits[(bytes[k] \div 16) + 1], HexDigits[(bytes[k] % 16) + 1]>>]))

\* The value that stands for the URIError encodeURIComponent throws.
URIError == <<-3>>

\* Characters encodeURIComponent leaves as they are: A-Z a-z 0-9 - _ . ! ~ * ' ( )
Unreserved == AlNum \cup Chars("-_.!~*'()")

\* Whether every surrogate of s is part of a pair.
WellFormed(s) ==
    \A i \in 1..Len(s) :
        /\ IsHigh(s[i]) => IsLow(Char(s, i + 1))
        /\ IsLow(s[i]) => IsHigh(Char(s, i - 1))

\* What Encode of ECMAScript writes for the code unit at index i of a
\* well-formed string: the unit itself if it is in `keep`, else the escapes
\* of the UTF-8 bytes of its code point (written at the high surrogate of a
\* pair, nothing at the low one).
EncodePiece(s, i, keep) ==
    IF s[i] \in keep THEN <<s[i]>>
    ELSE IF IsHigh(s[i]) THEN PctEncode(Utf8Of(PairPoint(s[i], s[i + 1])))
    ELSE IF IsLow(s[i]) THEN <<>>
    ELSE PctEncode(Utf8Of(s[i]))

\* Encode of ECMAScript: a surrogate that is not part of a pair is a
\* URIError.
Encode(s, keep) ==
    IF ~WellFormed(s) THEN URIError
    ELSE Flatten(Tuple([i \in 1..Len(s) |-> EncodePiece(s, i, keep)]))

\* Mutant of encodeURIComponent: encodeURI, which also leaves the reserved
\* characters ; / ? : @ & = + $ , # as they are.
encodeURI(s) == Encode(s, Unreserved \cup Chars(";/?:@&=+$,#"))

encodeURIComponent(s) == Encode(s, Unreserved)

\* Lead bytes of UTF-8, and the number of bytes of the sequence a lead byte
\* announces.
IsLead(b) == b >= 194 /\ b <= 244

Utf8Len(b) ==
    IF b >= 194 /\ b <= 223 THEN 2
    ELSE IF b >= 224 /\ b <= 239 THEN 3
    ELSE IF b >= 240 /\ b <= 244 THEN 4
    ELSE 0

\* The range of the byte that follows a lead byte: it excludes overlong
\* forms, surrogates and code points above U+10FFFF.
ContLo(lead) == IF lead = 224 THEN 160 ELSE IF lead = 240 THEN 144 ELSE 128

ContHi(lead) == IF lead = 237 THEN 159 ELSE IF lead = 244 THEN 143 ELSE 191

\* Whether the k bytes after the lead byte at index j are continuation
\* bytes of its sequence (1 <= k < Utf8Len).
Taken(b, j, k) ==
    /\ k < Utf8Len(b[j])
    /\ j + k <= Len(b)
    /\ b[j + 1] >= ContLo(b[j]) /\ b[j + 1] <= ContHi(b[j])
    /\ \A m \in 2..k : b[j + m] >= 128 /\ b[j + m] <= 191

\* The code point of well-formed UTF-8 bytes.
Utf8Point(b) ==
    IF Len(b) = 2 THEN (b[1] - 192) * 64 + (b[2] - 128)
    ELSE IF Len(b) = 3 THEN (b[1] - 224) * 4096 + (b[2] - 128) * 64 + (b[3] - 128)
    ELSE (b[1] - 240) * 262144 + (b[2] - 128) * 4096 + (b[3] - 128) * 64 + (b[4] - 128)

\* The bytes of the n escapes that stand at index i, <<>> if fewer stand there.
EscapedBytes(s, i, n) ==
    IF \A k \in 0..(n - 1) : PctAt(s, i + 3 * k)
    THEN Tuple([k \in 1..n |-> PctByte(s, i + 3 * (k - 1))])
    ELSE <<>>

\* Whether the escape at index i is that of a lead byte followed by the
\* escapes of the rest of a well-formed UTF-8 sequence.
LeadOk(s, i) ==
    /\ PctAt(s, i)
    /\ IsLead(PctByte(s, i))
    /\ EscapedBytes(s, i, Utf8Len(PctByte(s, i))) # <<>>
    /\ Taken(EscapedBytes(s, i, Utf8Len(PctByte(s, i))), 1, Utf8Len(PctByte(s, i)) - 1)

\* Whether the escape at index i belongs to the sequence of a lead byte
\* escaped before it.
Covered(s, i) ==
    \E k \in 1..3 : LeadOk(s, i - 3 * k) /\ Utf8Len(PctByte(s, i - 3 * k)) > k

\* Whether Decode accepts the "%" at index i: it starts the escape of a byte
\* below 0x80, or of a byte of a well-formed UTF-8 sequence of escapes.
EscapeOk(s, i) ==
    PctAt(s, i) /\ (PctByte(s, i) < 128 \/ LeadOk(s, i) \/ Covered(s, i))

\* What Decode writes for the code unit at index i of a string it accepts:
\* the unit itself, the byte of an escape below 0x80, the code point of a
\* sequence of escapes at its first escape, and nothing for the rest of an
\* escape or of a sequence.
DecodePiece(s, i) ==
    IF s[i] = 37 THEN
        (IF PctByte(s, i) < 128 THEN <<PctByte(s, i)>>
         ELSE IF LeadOk(s, i)
              THEN Utf16Of(Utf8Point(EscapedBytes(s, i, Utf8Len(PctByte(s, i)))))
         ELSE <<>>)
    ELSE IF Char(s, i - 1) = 37 \/ Char(s, i - 2) = 37 THEN <<>>
    ELSE <<s[i]>>

\* decodeURIComponent: [ok |-> FALSE] stands for the URIError it throws on a
\* "%" that does not start an escape and on escapes that are no well-formed
\* UTF-8 of one code point.  Every other code unit stands for itself.
decodeURIComponent(s) ==
    IF \A i \in 1..Len(s) : s[i] = 37 => EscapeOk(s, i)
    THEN [ok |-> TRUE, value |-> Flatten(Tuple([i \in 1..Len(s) |-> DecodePiece(s, i)]))]
    ELSE [ok |-> FALSE, value |-> <<>>]

\* The bytes the code unit at index i of a string stands for after
\* percent-decoding: an escape is its byte (written at its "%"), any other
\* code point its UTF-8 bytes (U+FFFD for a surrogate that is not part of a
\* pair); with plus, "+" is a space.
BytesPiece(s, i, plus) ==
    IF PctAt(s, i - 1) \/ PctAt(s, i - 2) THEN <<>>
    ELSE IF plus /\ s[i] = 43 THEN <<32>>
    ELSE IF PctAt(s, i) THEN <<PctByte(s, i)>>
    ELSE IF IsHigh(s[i]) /\ IsLow(Char(s, i + 1)) THEN Utf8Of(PairPoint(s[i], s[i + 1]))
    ELSE IF IsLow(s[i]) /\ IsHigh(Char(s, i - 1)) THEN <<>>
    ELSE IF IsHigh(s[i]) \/ IsLow(s[i]) THEN Utf8Of(65533)
    ELSE Utf8Of(s[i])

PercentBytes(s, plus) == Flatten(Tuple([i \in 1..Len(s) |-> BytesPiece(s, i, plus)]))

\* Whether the byte at index i is a continuation byte of the sequence of a
\* lead byte before it.
Consumed(b, i) == \E k \in 1..3 : i - k >= 1 /\ IsLead(b[i - k]) /\ Taken(b, i - k, k)

\* What "UTF-8 decode without BOM" of the Encoding standard writes for the
\* byte at index i: the code point of a complete sequence at its lead byte,
\* nothing at its continuation bytes, and U+FFFD for a byte that starts or
\* continues no sequence and for a sequence cut short.
Utf8Piece(b, i) ==
    IF Consumed(b, i) THEN <<>>
    ELSE IF b[i] < 128 THEN <<b[i]>>
    ELSE IF IsLead(b[i]) /\ Taken(b, i, Utf8Len(b[i]) - 1)
         THEN Utf16Of(Utf8Point(SubSeq(b, i, i + Utf8Len(b[i]) - 1)))
    ELSE <<65533>>

Utf8Decode(b) == Flatten(Tuple([i \in 1..Len(b) |-> Utf8Piece(b, i)]))

\* The decoding URLSearchParams applies to a name or a value of the query
\* of a parsed URL (application/x-www-form-urlencoded): "+" is a space, an
\* escape is its byte, and the bytes are decoded as UTF-8.
FormDecode(s) == Utf8Decode(PercentBytes(s, TRUE))

\* The parts of s between the occurrences of the code unit c.
Split(s, c) ==
    LET cuts == {i \in 1..Len(s) : s[i] = c}
        n == Cardinality(cuts)
        cut(k) == IF k = 0 THEN 0
                  ELSE IF k = n + 1 THEN Len(s) + 1
                  ELSE CHOOSE x \in cuts : Cardinality({y \in cuts : y < x}) = k - 1
    IN  Tuple([k \in 1..(n + 1) |-> SubSeq(s, cut(k - 1) + 1, cut(k) - 1)])

\* Name and value of a "&"-separated piece of a query string.
PairName(piece) ==
    IF IndexFrom(piece, <<61>>, 1) = 0 THEN piece
    ELSE SubSeq(piece, 1, IndexFrom(piece, <<61>>, 1) - 1)

PairValue(piece) ==
    IF IndexFrom(piece, <<61>>, 1) = 0 THEN <<>>
    ELSE From(piece, IndexFrom(piece, <<61>>, 1) + 1)

\* URLSearchParams.get(name) on a query string: the decoded value of the
\* first "&"-separated pair whose decoded name is `name`; NoMatch for null.
SearchParamsGet(qs, name) ==
    LET pieces == Split(qs, 38)
        hits == {k \in 1..Len(pieces) :
                    pieces[k] # <<>> /\ FormDecode(PairName(pieces[k])) = name}
    IN  IF hits = {} THEN NoMatch ELSE <<FormDecode(PairValue(pieces[Min(hits)]))>>

\* The URL parser first removes leading and trailing C0 controls and spaces,
\* then every tab and newline.
StripEnd(u) ==
    LET kept == {i \in 1..Len(u) : u[i] > 32}
    IN  IF kept = {} THEN <<>> ELSE SubSeq(u, 1, CHOOSE i \in kept : \A j \in kept : j <= i)

Cleaned(u) ==
    SelectSeq(StripEnd(From(u, RunEnd(u, 1, 0..32, FALSE))),
              LAMBDA c : c \notin {9, 10, 13})

\* ASCII lower case of a string.
LowerCase(s) ==
    Tuple([i \in 1..Len(s) |-> IF s[i] \in Upper THEN s[i] + 32 ELSE s[i]])

\* The value of a short run of decimal digits s[i..j-1] (at most 9 digits).
RECURSIVE SmallInt(_, _, _)
SmallInt(s, i, j) ==
    IF j <= i THEN 0 ELSE 10 * SmallInt(s, i, j - 1) + (s[j - 1] - 48)

\* The value of the digits of s in radix r (10, 16 or 8), as a number: a
\* hexadecimal digit stands for four bits, an octal digit for three.
RECURSIVE RadixValue(_, _)
RadixValue(s, r) ==
    IF r = 10 \/ s = <<>> THEN DigitsOf(s)
    ELSE IF Len(s) = 1 THEN NumOf(HexVal(s[1]))
    ELSE DAdd(DShift(RadixValue(SubSeq(s, 1, Len(s) \div 2), r),
                     (Len(s) - Len(s) \div 2) * (IF r = 16 THEN 4 ELSE 3)),
              RadixValue(SubSeq(s, Len(s) \div 2 + 1, Len(s)), r))

\* The IPv4 number parser of the URL standard: "0x" announces hexadecimal,
\* another leading "0" octal; NaN stands for failure.
Ipv4Digits(p) ==
    IF Len(p) >= 2 /\ p[1] = 48 /\ p[2] \in Chars("xX") THEN From(p, 3)
    ELSE IF Len(p) >= 2 /\ p[1] = 48 THEN From(p, 2)
    ELSE p

Ipv4Radix(p) ==
    IF Len(p) >= 2 /\ p[1] = 48 /\ p[2] \in Chars("xX") THEN 16
    ELSE IF Len(p) >= 2 /\ p[1] = 48 THEN 8
    ELSE 10

Ipv4Number(p) ==
    IF p = <<>> THEN NaN
    ELSE IF \E k \in 1..Len(Ipv4Digits(p)) :
                HexVal(Ipv4Digits(p)[k]) < 0 \/ HexVal(Ipv4Digits(p)[k]) >= Ipv4Radix(p)
         THEN NaN
    ELSE RadixValue(Ipv4Digits(p), Ipv4Radix(p))

\* The parts of a domain between its dots, without an empty last part.
DomainParts(d) ==
    IF Len(Split(d, 46)) > 1 /\ Split(d, 46)[Len(Split(d, 46))] = <<>>
    THEN SubSeq(Split(d, 46), 1, Len(Split(d, 46)) - 1)
    ELSE Split(d, 46)

\* The "ends in a number" checker: whether the last part of the domain is
\* all digits or an IPv4 number.
LastIsNumber(parts) ==
    LET last == parts[Len(parts)]
    IN  \/ (last # <<>> /\ \A k \in 1..Len(last) : last[k] \in Digits)
        \/ Ipv4Number(last) # NaN

\* The IPv4 parser: at most four numbers, all but the last at most 255, the
\* last below 256^(5 - their count).
Ipv4Ok(parts) ==
    /\ Len(parts) <= 4
    /\ \A k \in 1..Len(parts) : Ipv4Number(parts[k]) # NaN
    /\ \A k \in 1..(Len(parts) - 1) : DLess(Ipv4Number(parts[k]), <<2, 5, 6>>)
    /\ DLess(Ipv4Number(parts[Len(parts)]), DShift(<<1>>, 8 * (5 - Len(parts))))

\* An IPv4 address inside an IPv6 address, from index p: four decimal
\* numbers up to 255 without leading zeros, separated by dots; seen is the
\* number read so far.
RECURSIVE Ipv6V4(_, _, _, _, _)
Ipv6V4(s, p, idx, seen, comp) ==
    IF p > Len(s) THEN seen = 4 /\ (comp \/ idx = 8)
    ELSE
        LET q == IF seen > 0 THEN p + 1 ELSE p
            e == RunEnd(s, q, Digits, FALSE)
        IN  /\ seen > 0 => (s[p] = 46 /\ seen < 4)
            /\ e > q
            /\ e - q > 1 => s[q] # 48
            /\ e - q <= 3
            /\ SmallInt(s, q, e) <= 255
            /\ Ipv6V4(s, e, IF seen + 1 \in {2, 4} THEN idx + 1 ELSE idx, seen + 1, comp)

\* The IPv6 parser, as far as its failure goes: p is the pointer, idx the
\* piece index, comp whether "::" was seen.
RECURSIVE Ipv6Loop(_, _, _, _)
Ipv6Loop(s, p, idx, comp) ==
    IF p > Len(s) THEN comp \/ idx = 8
    ELSE IF idx = 8 THEN FALSE
    ELSE IF s[p] = 58 THEN ~comp /\ Ipv6Loop(s, p + 1, idx + 1, TRUE)
    ELSE
        LET r == RunEnd(s, p, Digits \cup Chars("abcdefABCDEF"), FALSE)
            e == IF r > p + 4 THEN p + 4 ELSE r
        IN  IF Char(s, e) = 46 THEN e > p /\ idx <= 6 /\ Ipv6V4(s, p, idx, 0, comp)
            ELSE IF Char(s, e) = 58 THEN e + 1 <= Len(s) /\ Ipv6Loop(s, e + 1, idx + 1, comp)
            ELSE IF e <= Len(s) THEN FALSE
            ELSE Ipv6Loop(s, e, idx + 1, comp)

Ipv6Ok(s) ==
    IF Char(s, 1) = 58 THEN Char(s, 2) = 58 /\ Ipv6Loop(s, 3, 1, TRUE)
    ELSE Ipv6Loop(s, 1, 0, FALSE)

\* Forbidden host code points, and the forbidden domain code points.
ForbiddenHost == {0, 9, 10, 13, 32} \cup Chars("#/:<>?@[\\]^|")

ForbiddenDomain == ForbiddenHost \cup (0..31) \cup {37, 127}

\* Whether a label of a lower-cased domain is one domain-to-ASCII has to
\* look up: it holds a code point beyond ASCII, which the mapping table of
\* UTS 46 maps, allows or refuses, or it starts with "xn--", so that it is
\* decoded as Punycode and the code points it stands for are looked up.
NeedsLookup(label) ==
    StartsWith(label, Str("xn--")) \/ \E k \in 1..Len(label) : label[k] >= 128

\* Whether a decoded, lower-cased domain is a host.  U+FFFD stands where the
\* escapes of the host were no UTF-8, which domain-to-ASCII refuses.  A
\* domain of ASCII labels none of which starts with "xn--" is its own
\* domain-to-ASCII: it is a host if it holds no forbidden domain code point
\* and, if it ends in a number, is an IPv4 address.  For a domain with a
\* label to look up, toAscii is the answer of the runtime: whether its
\* domain-to-ASCII succeeds on this domain and yields a host.  (The tables
\* it consults belong to the runtime, not to this repository.)  An ASCII
\* domain on which it succeeds is left as it is and is checked like any.
DomainOk(d, toAscii) ==
    /\ d # <<>>
    /\ \A k \in 1..Len(d) : d[k] # 65533
    /\ (\E k \in 1..Len(Split(d, 46)) : NeedsLookup(Split(d, 46)[k])) => toAscii
    /\ (\A k \in 1..Len(d) : d[k] < 128) =>
           /\ \A k \in 1..Len(d) : d[k] \notin ForbiddenDomain
           /\ LastIsNumber(DomainParts(d)) => Ipv4Ok(DomainParts(d))

\* The host parser for a special scheme: an IPv6 address in brackets, or the
\* percent-decoded, UTF-8 decoded, lower-cased domain.
HostOk(host, toAscii) ==
    IF Char(host, 1) = 91
    THEN host[Len(host)] = 93 /\ Ipv6Ok(SubSeq(host, 2, Len(host) - 1))
    ELSE DomainOk(LowerCase(Utf8Decode(PercentBytes(host, FALSE))), toAscii)

\* The opaque-host parser, for a scheme that is not special.
OpaqueHostOk(host) ==
    IF Char(host, 1) = 91
    THEN host[Len(host)] = 93 /\ Ipv6Ok(SubSeq(host, 2, Len(host) - 1))
    ELSE \A k \in 1..Len(host) : host[k] \notin ForbiddenHost

\* Index of the first ":" of an authority that stands outside brackets, 0
\* if none.
ColonAt(hp) ==
    LET inside(i) == \E j \in 1..(i - 1) :
                         hp[j] = 91 /\ \A k \in (j + 1)..(i - 1) : hp[k] # 93
        colons == {i \in 1..Len(hp) : hp[i] = 58 /\ ~inside(i)}
    IN  IF colons = {} THEN 0 ELSE Min(colons)

\* A port: digits, of a value up to 65535.
PortOk(port) ==
    /\ \A k \in 1..Len(port) : port[k] \in Digits
    /\ DLess(DigitsOf(port), <<6, 5, 5, 3, 6>>)

\* Host and port of an authority without credentials: the host may be empty
\* only for a scheme that is not special and only without a port.
HostPortOk(hp, special, toAscii) ==
    LET colon == ColonAt(hp)
        host  == IF colon = 0 THEN hp ELSE SubSeq(hp, 1, colon - 1)
    IN  /\ host = <<>> => (~special /\ colon = 0)
        /\ colon > 0 => PortOk(From(hp, colon + 1))
        /\ host # <<>> => (IF special THEN HostOk(host, toAscii) ELSE OpaqueHostOk(host))

\* An authority: what follows its last "@" is host and port, and is not
\* empty if there is an "@".
AuthorityOk(auth, special, toAscii) ==
    LET ats == {k \in 1..Len(auth) : auth[k] = 64}
        hp  == IF ats = {} THEN auth
               ELSE From(auth, (CHOOSE k \in ats : \A j \in ats : j <= k) + 1)
    IN  /\ ats # {} => hp # <<>>
        /\ HostPortOk(hp, special, toAscii)

\* Length of the scheme c starts with ("<alpha>[alnum+-.]*" before ":"), 0
\* if it starts with none.
SchemeLen(c) ==
    LET e == RunEnd(c, 2, AlNum \cup Chars("+-."), FALSE)
    IN  IF Len(c) >= 2 /\ c[1] \in Lower \cup Upper /\ Char(c, e) = 58 THEN e - 1 ELSE 0

SpecialSchemes == {Str("http"), Str("https"), Str("ws"), Str("wss"), Str("ftp")}

\* Whether the text after "file:" parses: the host after two slashes is
\* empty, a drive letter, or a host.
FileOk(rest, toAscii) ==
    LET e    == RunEnd(rest, 3, Chars("/\\?#"), TRUE)
        host == SubSeq(rest, 3, e - 1)
    IN  (Char(rest, 1) \in Chars("/\\") /\ Char(rest, 2) \in Chars("/\\")) =>
            \/ host = <<>>
            \/ (Len(host) = 2 /\ host[1] \in Lower \cup Upper /\ host[2] \in Chars(":|"))
            \/ HostOk(host, toAscii)

\* Whether the text after "<scheme>:" of a special scheme parses: the
\* authority follows any number of slashes and backslashes.
SpecialOk(rest, toAscii) ==
    LET a == RunEnd(rest, 1, Chars("/\\"), FALSE)
    IN  AuthorityOk(SubSeq(rest, a, RunEnd(rest, a, Chars("/\\?#"), TRUE) - 1), TRUE, toAscii)

\* Whether the text after "<scheme>:" of any other scheme parses: an
\* authority follows "//" only.
OtherOk(rest) ==
    At(rest, 1, Str("//")) =>
        AuthorityOk(SubSeq(rest, 3, RunEnd(rest, 3, Chars("/?#"), TRUE) - 1), FALSE, TRUE)

\* The query of a cleaned URL: the text after the first "?" up to the
\* fragment, empty if "#" comes first.
QueryOf(c) ==
    LET hash == IndexFrom(c, <<35>>, 1)
        stop == IF hash = 0 THEN Len(c) + 1 ELSE hash
        qm   == IndexFrom(c, <<63>>, 1)
    IN  IF qm = 0 \/ qm > stop THEN <<>> ELSE SubSeq(c, qm + 1, stop - 1)

\* `new URL(c)` of a cleaned text, as far as parseGoogleMapsUrl uses it: ok
\* is FALSE where the constructor throws, query is the query string;
\* toAscii is the answer of the runtime's domain-to-ASCII (see DomainOk).
ParseCleaned(c, n, toAscii) ==
    IF n = 0 THEN [ok |-> FALSE, query |-> <<>>]
    ELSE IF ~(IF LowerCase(SubSeq(c, 1, n)) \in SpecialSchemes THEN SpecialOk(From(c, n + 2), toAscii)
              ELSE IF LowerCase(SubSeq(c, 1, n)) = Str("file") THEN FileOk(From(c, n + 2), toAscii)
              ELSE OtherOk(From(c, n + 2)))
         THEN [ok |-> FALSE, query |-> <<>>]
    ELSE [ok |-> TRUE, query |-> QueryOf(c)]

ParseUrl(u, toAscii) == ParseCleaned(Cleaned(u), SchemeLen(Cleaned(u)), toAscii)

(***************************************************************************)
(* googlemaps.ts                                                            *)
(***************************************************************************)

\* /^https?:\/\/(?:maps\.app\.goo\.gl|goo\.gl\/maps)/ , h being the index
\* after the scheme (0 if the URL has neither scheme).
ShortHostAt(u, h) ==
    h > 0 /\ (At(u, h, Str("maps.app.goo.gl")) \/ At(u, h, Str("goo.gl/maps")))

isShortUrl(u) == ShortHostAt(u, SchemeEnd(u))

\* /\/maps\/search\/([^/?#]+)/ at index p.
searchAt(u, p) ==
    IF At(u, p, Str("/maps/search/"))
    THEN Captured(u, p + 13, RunEnd(u, p + 13, Chars("/?#"), TRUE))
    ELSE NoMatch

\* Group 1 of the leftmost match.
searchMatch(u) == First(Tuple([p \in 1..Len(u) |-> searchAt(u, p)]), NoMatch)

\* `([^/]+)\/([^/?#]+)` at index a, the run of [^/] ending before e1.
DirGroups(u, a, e1) ==
    IF e1 > a /\ At(u, e1, Str("/"))
    THEN Both(<<SubSeq(u, a, e1 - 1)>>,
              Captured(u, e1 + 1, RunEnd(u, e1 + 1, Chars("/?#"), TRUE)))
    ELSE NoMatch

\* /\/maps\/dir\/([^/]+)\/([^/?#]+)/ at index p.
dirAt(u, p) ==
    IF At(u, p, Str("/maps/dir/"))
    THEN DirGroups(u, p + 10, RunEnd(u, p + 10, Chars("/"), TRUE))
    ELSE NoMatch

\* Groups 1 and 2 of the leftmost match.
dirMatch(u) == First(Tuple([p \in 1..Len(u) |-> dirAt(u, p)]), NoMatch)

\* `\d+\.\d+` from index j, the integer digits ending before k and the
\* fraction digits before m: the index after it, 0 if it does not match.
FractionEnd(k, m) == IF m > k + 1 THEN m ELSE 0

DecimalEnd(s, j, k) ==
    IF k > j /\ At(s, k, Str(".")) THEN FractionEnd(k, RunEnd(s, k + 1, Digits, FALSE)) ELSE 0

DecimalFrom(s, j) == DecimalEnd(s, j, RunEnd(s, j, Digits, FALSE))

\* `-?\d+\.\d+` at index i: the index after it, 0 if it does not match
\* (i = 0: nothing to match at).
NumEnd(s, i) ==
    IF i < 1 THEN 0 ELSE DecimalFrom(s, IF At(s, i, Str("-")) THEN i + 1 ELSE i)

\* `\d+(?:\.\d+)?` at index i: the index after it, 0 if it does not match.
\* A unit letter can only follow the greedy end (a shorter match is followed
\* by a digit or by ".").
OptFractionEnd(k, m) == IF m > k + 1 THEN m ELSE k

ZoomDigitsEnd(s, i, k) ==
    IF k = i THEN 0
    ELSE IF At(s, k, Str(".")) THEN OptFractionEnd(k, RunEnd(s, k + 1, Digits, FALSE))
    ELSE k

ZoomEnd(s, i) == IF i < 1 THEN 0 ELSE ZoomDigitsEnd(s, i, RunEnd(s, i, Digits, FALSE))

\* The index after a "," at index e, 0 if there is none (or e = 0).
AfterComma(s, e) == IF e > 0 /\ At(s, e, Str(",")) THEN e + 1 ELSE 0

\* `(-?\d+\.\d+),(-?\d+\.\d+),(\d+(?:\.\d+)?)([mz])` at index i:
\* <<lat, lng, zoom value, unit>>, NoMatch if it does not match; e1, e2 and
\* e3 are the indices after the three numbers.
CoordsGroups(s, i, e1, e2, e3) ==
    IF e3 > 0 /\ e3 <= Len(s) /\ s[e3] \in Chars("mz")
    THEN <<SubSeq(s, i, e1 - 1), SubSeq(s, e1 + 1, e2 - 1),
           SubSeq(s, e2 + 1, e3 - 1), <<s[e3]>> >>
    ELSE NoMatch

CoordsZoom(s, i, e1, e2) == CoordsGroups(s, i, e1, e2, ZoomEnd(s, AfterComma(s, e2)))

CoordsLng(s, i, e1) == CoordsZoom(s, i, e1, NumEnd(s, AfterComma(s, e1)))

CoordsAt(s, i) == CoordsLng(s, i, NumEnd(s, i))

\* `([^/@]+)\/@<coordinates>` at index a, the run of [^/@] ending before e.
PlaceGroups(u, a, e) ==
    IF e > a /\ At(u, e, Str("/@"))
    THEN Both(<<SubSeq(u, a, e - 1)>>, CoordsAt(u, e + 2))
    ELSE NoMatch

\* /\/maps\/place\/([^/@]+)\/@(-?\d+\.\d+),(-?\d+\.\d+),(\d+(?:\.\d+)?)([mz])/
\* at index p.
placeAt(u, p) ==
    IF At(u, p, Str("/maps/place/"))
    THEN PlaceGroups(u, p + 12, RunEnd(u, p + 12, Chars("/@"), TRUE))
    ELSE NoMatch

\* <<name, lat, lng, zoom value, unit>> of the leftmost match.
placeMatch(u) == First(Tuple([p \in 1..Len(u) |-> placeAt(u, p)]), NoMatch)

\* /\/maps\/@(-?\d+\.\d+),(-?\d+\.\d+),(\d+(?:\.\d+)?)([mz])/ at index p.
coordsAt(u, p) == IF At(u, p, Str("/maps/@")) THEN CoordsAt(u, p + 7) ELSE NoMatch

coordsMatch(u) == First(Tuple([p \in 1..Len(u) |-> coordsAt(u, p)]), NoMatch)

\* The mantissa of the double 500 * 2^(18.5 - k) rounds down to: that bound
\* is BoundMantissa * 2^-(25 + k) and a fraction of the last place.
BoundMantissa == <<6, 2, 1, 9, 7, 7, 7, 0, 2, 3, 9, 5, 0, 9, 4, 9>>

\* Number of doubles above the bound of k that still give zoom k: the
\* quotient `meters / 500` of each is a double whose Math.log2 is the double
\* 18.5 - k itself, or so little more that the difference from 18 rounds
\* to the double k - 0.5, which Math.round rounds up to k.  (The last
\* place of the logarithm and that of the difference change with k.)
BoundSlack(k) ==
    IF k <= 2 \/ k >= 17 THEN 8
    ELSE IF k <= 10 THEN 4
    ELSE IF k <= 14 THEN 6
    ELSE 5

\* The greatest double `meters` for which
\* Math.round(18 - Math.log2(meters / 500)) >= k, k in 1..20, is
\* ZoomMantissa(k) * 2^-(25 + k).
ZoomMantissa(k) == DAdd(BoundMantissa, NumOf(BoundSlack(k)))

\* Whether parseFloat of the decimal n / 10^d is at most the double
\* mant * 2^-e (mant of 53 bits): parseFloat rounds to the nearest double,
\* and a decimal half-way between two doubles to the one of even mantissa,
\* so the decimal is below the middle (2 * mant + 1) * 2^-(e + 1) of that
\* double and the next, or is that middle and mant is even.
ParseFloatAtMost(n, d, mant, e) ==
    LET decimal == DShift(n, e + 1)
        middle  == DShift10(DAdd(Double2(mant), <<1>>), d)
    IN  DLess(decimal, middle) \/ (decimal = middle /\ mant[Len(mant)] % 2 = 0)

\* Math.round(18 - Math.log2(parseFloat(value) / 500)) >= k, in doubles, for
\* the value n / 10^d.
ZoomAtLeast(n, d, k) == ParseFloatAtMost(n, d, ZoomMantissa(k), 25 + k)

\* Math.max(1, Math.min(20, zoom)) for that value.  (Zero meters have the
\* logarithm -Infinity, so zoom Infinity, clamped to 20; a value beyond the
\* doubles is read as Infinity, so zoom -Infinity, clamped to 1.)
ClampedZoom(n, d) ==
    LET ks == {k \in 1..20 : k = 1 \/ ZoomAtLeast(n, d, k)}
    IN  CHOOSE k \in ks : \A j \in ks : j <= k

\* convertZoom.  For unit "m", value is <digits> or <digits>.<digits>:
\* n is the digits read as one number and d the number of fraction digits.
convertZoom(value, unit) ==
    LET dot == IndexFrom(value, Str("."), 1)
        d   == IF dot = 0 THEN 0 ELSE Len(value) - dot
        n   == IF dot = 0 THEN DigitsOf(value)
               ELSE DigitsOf(SubSeq(value, 1, dot - 1) \o From(value, dot + 1))
    IN  IF unit = Str("z") THEN value
        ELSE NumberToString(NumOf(ClampedZoom(n, d)))

\* The value parseGoogleMapsUrl returns; a field the code leaves out is
\* empty.
Parsed(type, query, lat, lng, zoom) ==
    [type |-> type, query |-> query, lat |-> lat, lng |-> lng, zoom |-> zoom]

Unknown == Parsed("unknown", <<>>, <<>>, <<>>, <<>>)

\* The value returned for a match whose name decodes to d: a URIError of
\* decodeURIComponent is caught and leaves type unknown.
QueryParsed(type, d, lat, lng, zoom) ==
    IF d.ok THEN Parsed(type, d.value, lat, lng, zoom) ELSE Unknown

\* The value returned for a search-path match (groups g): the decoded term.
searchParsed(g) == QueryParsed("search", decodeURIComponent(g[1]), <<>>, <<>>, <<>>)

\* The value returned for decoded start and end: `${start} to ${end}`.
DirDecoded(start, end) ==
    IF start.ok /\ end.ok
    THEN Parsed("directions", start.value \o Str(" to ") \o end.value, <<>>, <<>>, <<>>)
    ELSE Unknown

\* The value returned for a directions match.
dirParsed(g) == DirDecoded(decodeURIComponent(g[1]), decodeURIComponent(g[2]))

\* The value returned for a place match.
placeParsed(g) ==
    QueryParsed("place", decodeURIComponent(g[1]), g[2], g[3], convertZoom(g[4], g[5]))

\* The value returned for a coordinates match.
coordsParsed(g) == Parsed("coords", <<>>, g[1], g[2], convertZoom(g[3], g[4]))

\* The five shapes in the order the code tests them, given qp.get('query')
\* and the matches of the four path patterns.
ShapeOf(qp, search, dir, place, coords) ==
    IF qp # NoMatch /\ qp[1] # <<>> THEN Parsed("search", qp[1], <<>>, <<>>, <<>>)
    ELSE IF search # NoMatch THEN searchParsed(search)
    ELSE IF dir # NoMatch THEN dirParsed(dir)
    ELSE IF place # NoMatch THEN placeParsed(place)
    ELSE IF coords # NoMatch THEN coordsParsed(coords)
    ELSE Unknown

\* The body of the try block after `new URL(url)` succeeded, qp being
\* qp.get('query').
parseShapes(u, qp) ==
    ShapeOf(qp, searchMatch(u), dirMatch(u), placeMatch(u), coordsMatch(u))

\* The try block, given the outcome of `new URL(url)`: a TypeError is
\* caught and leaves type unknown.
ParsedUrl(u, apiUrl) ==
    IF apiUrl.ok THEN parseShapes(u, SearchParamsGet(apiUrl.query, Str("query")))
    ELSE Unknown

\* parseGoogleMapsUrl, toAscii being the answer of the runtime's
\* domain-to-ASCII to `new URL(url)` (see DomainOk).
parseGoogleMapsUrl(u, toAscii) ==
    IF isShortUrl(u) THEN Parsed("shorturl", <<>>, <<>>, <<>>, <<>>)
    ELSE ParsedUrl(u, ParseUrl(u, toAscii))

\* The text a host pattern matches: the URL up to the end of the literal
\* that stands at index h.
HostPrefix(u, h, lit) == <<SubSeq(u, 1, h + Len(lit) - 1)>>

\* googlemapsHandler.match, h being the index after the scheme: the text
\* the first of the patterns matches.
MapsHostAt(u, h) ==
    IF h = 0 THEN NoMatch
    ELSE IF At(u, h, Str("www.google.com/maps")) THEN HostPrefix(u, h, "www.google.com/maps")
    ELSE IF At(u, h, Str("google.com/maps")) THEN HostPrefix(u, h, "google.com/maps")
    ELSE IF At(u, h, Str("maps.google.com")) THEN HostPrefix(u, h, "maps.google.com")
    ELSE IF At(u, h, Str("maps.app.goo.gl")) THEN HostPrefix(u, h, "maps.app.goo.gl")
    ELSE IF At(u, h, Str("goo.gl/maps")) THEN HostPrefix(u, h, "goo.gl/maps")
    ELSE NoMatch

googlemapsMatch(u) == MapsHostAt(u, SchemeEnd(u))

\* The Android intent of the maps handler: authority and query, then the
\* fixed geo-scheme tail with the percent-encoded browser fallback.
geoIntent(target, fallbackUrl) ==
    Str("intent://") \o target
    \o Str("#Intent;scheme=geo;package=com.google.android.apps.maps")
    \o Str(";action=android.intent.action.VIEW;category=android.intent.category.BROWSABLE")
    \o Str(";S.browser_fallback_url=") \o encodeURIComponent(fallbackUrl) \o Str(";end")

\* query.split(' to ')[0] and [1] (empty where the element is undefined),
\* i being the index of the first " to " and j that of the next (0: none).
Part0(q, i) == IF i = 0 THEN q ELSE SubSeq(q, 1, i - 1)

SplitTo0(q) == Part0(q, IndexFrom(q, Str(" to "), 1))

Part1(q, i, j) == IF j = 0 THEN From(q, i + 4) ELSE SubSeq(q, i + 4, j - 1)

Part1From(q, i) == IF i = 0 THEN Undefined ELSE Part1(q, i, IndexFrom(q, Str(" to "), i + 4))

SplitTo1(q) == Part1From(q, IndexFrom(q, Str(" to "), 1))

\* `https://www.google.com/maps/search/?api=1&query=${encodeURIComponent(query)}`
SearchUrl(query) ==
    Str("https://www.google.com/maps/search/?api=1&query=") \o encodeURIComponent(query)

\* Mutant of BuildQuery: the coordinates case derives no query.
BuildQueryNoCoords(parsed) ==
    IF parsed.type \in {"search", "directions"} THEN parsed.query
    ELSE IF parsed.type = "place" THEN
        (IF parsed.query # <<>> THEN parsed.query
         ELSE parsed.lat \o Str(",") \o parsed.lng)
    ELSE <<>>

\* The query the switch of googlemapsHandler.build derives for a parse.
BuildQuery(parsed) ==
    IF parsed.type \in {"search", "directions"} THEN parsed.query
    ELSE IF parsed.type = "place" THEN
        (IF parsed.query # <<>> THEN parsed.query
         ELSE parsed.lat \o Str(",") \o parsed.lng)
    ELSE IF parsed.type = "coords" THEN parsed.lat \o Str(",") \o parsed.lng
    ELSE <<>>

\* The ios link of each case of the switch of googlemapsHandler.build.
mapsIos(parsed, query) ==
    IF parsed.type \in {"search", "place"}
        THEN Str("comgooglemaps://?q=") \o encodeURIComponent(query)
    ELSE IF parsed.type = "coords"
        THEN Str("comgooglemaps://?center=") \o parsed.lat \o Str(",") \o parsed.lng
             \o Str("&zoom=") \o parsed.zoom
    ELSE IF parsed.type = "directions"
        THEN Str("comgooglemaps://?daddr=") \o encodeURIComponent(query)
    ELSE Str("comgooglemaps://")

\* directionsUrl: dirStart is dirParts[0] || '', dirEnd is
\* dirParts[1] || dirParts[0] || ''.
directionsUrl(dirPart0, dirPart1) ==
    Str("https://www.google.com/maps/dir/") \o encodeURIComponent(dirPart0) \o Str("/")
    \o encodeURIComponent(IF dirPart1 # <<>> THEN dirPart1 ELSE dirPart0)

\* The android link of each case of the switch of googlemapsHandler.build.
mapsAndroid(parsed, query) ==
    IF parsed.type = "search"
        THEN geoIntent(Str("0,0?q=") \o encodeURIComponent(query), SearchUrl(query))
    ELSE IF parsed.type = "place"
        THEN geoIntent(parsed.lat \o Str(",") \o parsed.lng \o Str("?q=")
                           \o encodeURIComponent(query),
                       Str("https://www.google.com/maps/place/") \o encodeURIComponent(query)
                           \o Str("/@") \o parsed.lat \o Str(",") \o parsed.lng \o Str(",")
                           \o parsed.zoom \o Str("z"))
    ELSE IF parsed.type = "coords"
        THEN geoIntent(parsed.lat \o Str(",") \o parsed.lng \o Str("?z=") \o parsed.zoom,
                       Str("https://www.google.com/maps/@") \o parsed.lat \o Str(",")
                           \o parsed.lng \o Str(",") \o parsed.zoom \o Str("z"))
    ELSE IF parsed.type = "directions"
        THEN geoIntent(Str("0,0?q=") \o encodeURIComponent(query),
                       directionsUrl(SplitTo0(query), SplitTo1(query)))
    ELSE geoIntent(Str("0,0"), Str("https://www.google.com/maps"))

\* What stands for a call of build that ends in the URIError of
\* encodeURIComponent: no DeepLinkResult is returned.
BuildThrows ==
    [platform |-> "URIError", webUrl |-> URIError, ios |-> URIError, android |-> URIError]

\* The value googlemapsHandler.build returns for a parse and its query.
mapsResult(webUrl, parsed, query) ==
    IF parsed.type = "shorturl"
    THEN [platform |-> "googlemaps",
          webUrl   |-> webUrl,
          ios      |-> Str("https://") \o From(webUrl, SchemeEnd(webUrl)),
          android  |-> Str("https://") \o From(webUrl, SchemeEnd(webUrl))]
    ELSE [platform |-> "googlemaps",
          webUrl   |-> IF query # <<>> THEN SearchUrl(query) ELSE webUrl,
          ios      |-> mapsIos(parsed, query),
          android  |-> mapsAndroid(parsed, query)]

\* build for a parse: the first encodeURIComponent of the case (of webUrl
\* for a short link, of the query otherwise) throws on a string that is not
\* well-formed, and every later one encodes a part of the same string.
mapsBuildQuery(webUrl, parsed, query) ==
    IF encodeURIComponent(IF parsed.type = "shorturl" THEN webUrl ELSE query) = URIError
    THEN BuildThrows
    ELSE mapsResult(webUrl, parsed, query)

mapsBuildParsed(webUrl, parsed) == mapsBuildQuery(webUrl, parsed, BuildQuery(parsed))

googlemapsBuild(webUrl, match, toAscii) ==
    mapsBuildParsed(webUrl, parseGoogleMapsUrl(webUrl, toAscii))

(***************************************************************************)
(* Registry and dispatcher.  translate(url) tries the platform handlers in  *)
(* registry order and returns the build of the first whose match accepts    *)
(* the URL, else the catch-all result.                                      *)
(***************************************************************************)

Handlers == {"youtube", "zoom", "googlemaps"}

\* The registry orders: every permutation of the three platform handlers
\* (the catch-all is always last).
Orders == {o \in [1..3 -> Handlers] : \A i, j \in 1..3 : i # j => o[i] # o[j]}

MatchOf(h, u) ==
    IF h = "youtube" THEN youtubeMatch(u)
    ELSE IF h = "zoom" THEN zoomMatch(u)
    ELSE googlemapsMatch(u)

\* The handler translate(u) dispatches to under registry order o.
FirstMatch(u, o) ==
    IF \A i \in 1..3 : MatchOf(o[i], u) = NoMatch THEN "unknown"
    ELSE o[Min({i \in 1..3 : MatchOf(o[i], u) # NoMatch})]

\* The catch-all handler's result.
unknownBuild(webUrl) ==
    [platform |-> "unknown", webUrl |-> webUrl, ios |-> Null, android |-> Null]

\* The result variable before translate has returned.
NoResult == [platform |-> "", webUrl |-> <<>>, ios |-> Null, android |-> Null]

(***************************************************************************)
(* Inputs                                                                   *)
(***************************************************************************)

\* Number of translate calls in a run: the first on the input, each later
\* one on the webUrl the previous call returned.
MaxRounds == 2

\* The literal of a URL with one more query parameter.
WithParam(u, a) ==
    IF a = "" THEN u
    ELSE IF \E i \in 1..Len(u) : SubSeq(u, i, i) = "?" THEN u \o "&" \o a
    ELSE u \o "?" \o a

YoutubeBases ==
    {"https://youtu.be/dQw4w9WgXcQ",
     "https://www.youtube.com/watch?v=dQw4w9WgXcQ",
     "https://m.youtube.com/watch?list=PL1&v=dQw4w9WgXcQ",
     "https://www.youtube.com/shorts/dQw4w9WgXcQ",
     "https://www.youtube.com/embed/dQw4w9WgXcQ",
     "https://youtube.com/live/dQw4w9WgXcQ"}

\* Timestamp parameters: the documented forms, zero and unparseable values,
\* and values at and beyond the integers a double holds exactly.
TimeArgs ==
    {"", "t=83", "t=0", "t=007", "t=83s", "t=0s", "t=1m23s", "t=1h2m3s", "t=0h0m0s",
     "t=2m", "t=1h30s", "t=3m1h", "t=abc", "start=90", "start=0", "t=&start=5",
     "t=45&start=5", "start=7&t=1m", "start=5&t=0", "t=0&start=5", "t=0s&start=5",
     "feature=share",
     "t=2147483648s", "t=596524h", "start=99999999999", "t=9007199254740993s",
     "start=1000000000000000000000", "t=12345678901234567890123h"}

\* A video URL whose start parameter is 1 followed by 309 zeros: parseInt
\* reads it as Infinity.
YoutubeHugeStart ==
    Str("https://youtu.be/dQw4w9WgXcQ?start=1") \o Tuple([i \in 1..309 |-> 48])

YoutubeInputs ==
    {Str(WithParam(b, a)) : b \in YoutubeBases, a \in TimeArgs} \cup {YoutubeHugeStart}

ZoomInputs ==
    {Str(s \o h \o "/j/" \o id \o q) :
        s \in {"https://", "http://"},
        h \in {"zoom.us", "us02web.zoom.us"},
        id \in {"1234567890", "987"},
        q \in {"", "?pwd=abcdef", "?pwd=", "?pwd=aB3-x", "?uname=bob&pwd=abc",
               "?pwd=abcdef&ref=youtu.be/dQw4w9WgXcQ"}}

MapsHosts ==
    {"https://www.google.com/maps", "http://google.com/maps", "https://maps.google.com/maps"}

MapsPaths ==
    {"", "/",
     "/search/pizza+near+me", "/search/coffee%20shop?hl=en", "/search/%zz",
     "/search/?api=1&query=pizza", "/search/?api=1&query=Eiffel%20Tower",
     "/search/?api=1&query=a%2Bb+c%26d", "?q=pizza&query=", "?quer%79=tacos#top",
     "/search/caf%C3%A9", "/search/?api=1&query=caf%C3%A9", "?query=caf%C3%A9",
     "/search/a%60b", "/search/a%2Fb",
     "/search/%zz/maps/@3.5,4.5,11z", "/dir/%E0/Lyon/maps/place/X/@1.5,2.5,10z",
     "/place/%/@48.8606,2.3376,15z/maps/@3.5,4.5,11z",
     "/search/%F0%9F%8D%95", "?query=%FF", "?query=pizza ", "/search/%C3",
     "/dir/Paris/Lyon", "/dir/New+York/Boston%2C+MA", "/dir/a%20to%20b/c", "/dir/Paris/",
     "/dir/%E0/Lyon", "/dir/Z%C3%BCrich/Gen%C3%A8ve",
     "/place/Eiffel+Tower/@48.8584,2.2945,17z", "/place/Eiffel%20Tower/@48.8584,2.2945,17z",
     "/place/Louvre/@48.8606,2.3376,1500m", "/place/Louvre/@48.8606,2.3376",
     "/place/%/@48.8606,2.3376,15z", "/place/Caf%C3%A9+de+Flore/@48.8541,2.3326,17z",
     "/@48.8584,2.2945,17z", "/@-33.8688,151.2093,12.5z", "/@48.8584,2.2945,800m",
     "/@48.8584,2.2945,17x", "/@48.8584,2.2945", "/@48,2,17z",
     "/@1.5,2.5,50000m", "/@1.5,2.5,800.25m", "/@1.5,2.5,0m", "/@1.5,2.5,99999999999m",
     "/place/Eiffel+Tower/@48.8584,2.2945,17z?query=tower",
     "/search/pizza/maps/dir/Paris/Lyon", "/dir/Paris/Lyon/maps/place/X/@1.5,2.5,10z",
     "/place/X/@1.5,2.5,10z/maps/@3.5,4.5,11z", "/search/pizza/maps/@3.5,4.5,11z",
     "/@3.5,4.5,11z?query=pizza", "/dir/Paris/Lyon?query=Rome"}

\* URLs whose host needs the URL parser's attention, short links, and a
\* maps URL that carries a video link.
MapsOddInputs ==
    {"https://maps.app.goo.gl/AbC123", "https://goo.gl/maps/xyz?query=pizza",
     "http://maps.app.goo.gl/maps/search/pizza",
     "https://maps.google.com:99999/maps/search/pizza",
     "https://maps.google.com:8080/maps/search/pizza",
     "https://maps.google.com:000080/maps/search/pizza",
     "https://maps.google.com<x>/maps/@48.8584,2.2945,17z",
     "https://maps.google.com%/maps/search/pizza",
     "https://maps.google.com%2Eau/maps/search/pizza",
     "https://maps.google.com.5/maps/search/pizza",
     "https://maps.google.com@1.2.3.4/maps/search/pizza",
     "https://maps.google.com@[::1]/maps/search/pizza",
     "https://maps.google.com@[::1.2.3]/maps/search/pizza",
     "https://maps.google.com@/maps/search/pizza",
     "https://www.google.com/maps?q=https://youtu.be/dQw4w9WgXcQ"}

\* Maps URLs written with characters no literal holds: a search term with
\* U+00E9, a query parameter name broken by a tab, a search term with a
\* grave accent, and a search term, a query parameter and a short link with
\* a surrogate that is not part of a pair.
MapsRawInputs ==
    {Str("https://www.google.com/maps/search/caf") \o <<233>>,
     Str("https://www.google.com/maps?que") \o <<9>> \o Str("ry=pizza"),
     Str("https://www.google.com/maps/search/a") \o <<96>> \o Str("b"),
     Str("https://www.google.com/maps/search/pizza") \o <<55356>>,
     Str("https://www.google.com/maps?query=pizza") \o <<55356>>,
     Str("https://maps.app.goo.gl/AbC") \o <<57173>>}

\* Coordinates with a zoom in meters at a bound of the rounding: the first
\* two are above the bound 500 * 2^(18.5 - k) of k = 18 and of k = 19 and
\* still give k, the next two are the greatest double that gives 8 and a
\* decimal that is read as the double after it, and the last two are
\* half-way between the greatest double that gives k and the next double,
\* for k = 15 (read as the former) and for k = 18 (read as the latter).
MapsZoomInputs ==
    {"https://www.google.com/maps/@1.5,2.5,707.1067811865476m",
     "https://www.google.com/maps/place/X/@1.5,2.5,353.5533905932738m",
     "https://www.google.com/maps/@1.5,2.5,724077.343935025m",
     "https://www.google.com/maps/@1.5,2.5,724077.3439350251m",
     "https://www.google.com/maps/@1.5,2.5,5656.85424949238449698896147310733795166015625m",
     "https://www.google.com/maps/@1.5,2.5,707.10678118654840318413334898650646209716796875m"}

\* Maps URLs whose host has a label that domain-to-ASCII looks up and
\* refuses: "xn--a" is the Punycode of U+0080, a control character, and
\* U+200D (zero width joiner) stands after no virama.
RefusedHosts ==
    {Str("https://maps.google.com.xn--a/maps/search/pizza"),
     Str("https://maps.google.com") \o <<8205>> \o Str("/maps/dir/A/B")}

\* Maps URLs whose host has a label that domain-to-ASCII looks up and
\* accepts: "xn--caf-dma" is the Punycode of "caf" and U+00E9, and a label
\* with U+00E9 becomes that Punycode.
AcceptedHosts ==
    {Str("https://maps.google.com.xn--caf-dma/maps/search/pizza"),
     Str("https://maps.google.com.caf") \o <<233>> \o Str("/maps/dir/A/B")}

MapsInputs ==
    {Str(h \o p) : h \in MapsHosts, p \in MapsPaths}
    \cup {Str(u) : u \in MapsOddInputs \cup MapsZoomInputs}
    \cup MapsRawInputs
    \cup RefusedHosts \cup AcceptedHosts

OtherInputs ==
    {Str(u) : u \in
        {"https://example.com/random", "", "not a url", "https://zoom.us/join",
         "https://zoom.us/j/abc", "ftp://zoom.us/j/123",
         "https://www.youtube.com/watch?v=short",
         "https://www.youtube.com/embed/dQw4w9WgXcQx",
         "https://example.com/?u=https://youtu.be/dQw4w9WgXcQ",
         "https://example.com/maps/search/pizza"}}

Inputs == YoutubeInputs \cup ZoomInputs \cup MapsInputs \cup OtherInputs

(***************************************************************************)
(* State machine                                                            *)
(***************************************************************************)

Init ==
    /\ input \in Inputs
    /\ url = input
    /\ order \in Orders
    /\ pc = "ready"
    /\ handler = ""
    /\ result = NoResult
    /\ prevUrl = <<>>
    /\ prevResult = NoResult
    /\ round = 1
    /\ domainToAscii = (input \notin RefusedHosts)

\* translate(url) when the first handler to accept url is the video handler.
TranslateYoutube ==
    /\ pc = "ready"
    /\ FirstMatch(url, order) = "youtube"
    /\ result' = youtubeBuild(url, youtubeMatch(url))
    /\ handler' = "youtube"
    /\ pc' = "done"
    /\ UNCHANGED <<input, url, order, prevUrl, prevResult, round, domainToAscii>>

\* translate(url) when the first handler to accept url is the meeting handler.
TranslateZoom ==
    /\ pc = "ready"
    /\ FirstMatch(url, order) = "zoom"
    /\ result' = zoomBuild(url, zoomMatch(url))
    /\ handler' = "zoom"
    /\ pc' = "done"
    /\ UNCHANGED <<input, url, order, prevUrl, prevResult, round, domainToAscii>>

\* translate(url) when the first handler to accept url is the maps handler.
TranslateGooglemaps ==
    /\ pc = "ready"
    /\ FirstMatch(url, order) = "googlemaps"
    /\ result' = googlemapsBuild(url, googlemapsMatch(url), domainToAscii)
    /\ handler' = "googlemaps"
    /\ pc' = "done"
    /\ UNCHANGED <<input, url, order, prevUrl, prevResult, round, domainToAscii>>

\* translate(url) when no platform handler accepts url.
TranslateUnknown ==
    /\ pc = "ready"
    /\ FirstMatch(url, order) = "unknown"
    /\ result' = unknownBuild(url)
    /\ handler' = "unknown"
    /\ pc' = "done"
    /\ UNCHANGED <<input, url, order, prevUrl, prevResult, round, domainToAscii>>

\* The caller feeds the returned webUrl to translate again.
Retranslate ==
    /\ pc = "done"
    /\ round < MaxRounds
    /\ result # BuildThrows
    /\ url' = result.webUrl
    /\ prevUrl' = url
    /\ prevResult' = result
    /\ round' = round + 1
    /\ pc' = "ready"
    /\ handler' = ""
    /\ result' = NoResult
    /\ UNCHANGED <<input, order, domainToAscii>>

Next ==
    \/ TranslateYoutube
    \/ TranslateZoom
    \/ TranslateGooglemaps
    \/ TranslateUnknown
    \/ Retranslate

Spec == Init /\ [][Next]_vars

(***************************************************************************)
(* Properties                                                               *)
(***************************************************************************)

Done == pc = "done"

\* The value n of the first "t=" parameter of u when that value is a bare
\* integer of seconds (digits up to the next "&", "#" or the end), zero
\* otherwise.
BareSeconds(u) ==
    LET starts == {p \in 1..Len(u) : u[p] \in Chars("?&") /\ At(u, p + 1, Str("t="))}
        a == Min(starts) + 3
        e == RunEnd(u, a, Digits, FALSE)
    IN  IF starts # {} /\ e > a /\ TermOk(u, e, Chars("&#"))
        THEN ParseInt(SubSeq(u, a, e - 1))
        ELSE Zero

\* C1: for every recognized video URL whose t= parameter is a bare positive
\* integer n of seconds, build appends "&t=<n>s" to both the ios and the
\* android link; "https://youtu.be/dQw4w9WgXcQ?t=83" yields platform youtube
\* and ios "vnd.youtube://watch?v=dQw4w9WgXcQ&t=83s".
C1_BareSecondsAppended ==
    (Done /\ handler = "youtube" /\ NumPos(BareSeconds(url))) =>
        /\ result.platform = "youtube"
        /\ result.ios = Str("vnd.youtube://watch?v=") \o youtubeMatch(url)[2]
                        \o Str("&t=") \o NumberToString(BareSeconds(url)) \o Str("s")
        /\ result.android = Str("intent://watch?v=") \o youtubeMatch(url)[2]
                        \o Str("&t=") \o NumberToString(BareSeconds(url)) \o Str("s")
                        \o Str("#Intent;scheme=vnd.youtube;package=com.google.android.youtube;end")

\* Whether num is the numeral of a positive number: decimal digits that
\* start with none of "0", or such digits in exponent notation
\* ("<d>[.<digits>]e+<digits>"), or "Infinity".
IsPositiveNumeral(num) ==
    LET e == IndexFrom(num, Str("e+"), 1)
        m == IF e = 0 THEN num ELSE SubSeq(num, 1, e - 1)
    IN  \/ num = Str("Infinity")
        \/ /\ e = 0
           /\ num # <<>> /\ num[1] \in Chars("123456789")
           /\ \A k \in 1..Len(num) : num[k] \in Digits
        \/ /\ e > 1
           /\ m[1] \in Chars("123456789")
           /\ Len(m) > 1 => (m[2] = 46 /\ Len(m) > 2)
           /\ \A k \in 3..Len(m) : m[k] \in Digits
           /\ Len(num) > e + 1
           /\ \A k \in (e + 2)..Len(num) : num[k] \in Digits

\* C8: for every recognized video URL, if no timestamp is extracted or the
\* extracted one converts to a non-positive number of seconds (t=0, t=0s,
\* t=0h0m0s, start=0, an unparseable value), neither link contains "t=";
\* and whenever a "&t=<n>s" suffix is rendered, n is the numeral of a
\* positive number, as String writes it, and the same suffix stands in both
\* links.
C8_NoNonPositiveTimestamp ==
    (Done /\ handler = "youtube") =>
        LET ts  == extractTimestamp(url)
            id  == youtubeMatch(url)[2]
            i   == IndexFrom(result.ios, Str("&t="), 1)
            num == SubSeq(result.ios, i + 3, Len(result.ios) - 1)
        IN  /\ (ts = Null \/ ~NumPos(parseTimestampToSeconds(ts))) =>
                 (~Contains(result.ios, Str("t=")) /\ ~Contains(result.android, Str("t=")))
            /\ (Contains(result.ios, Str("t=")) \/ Contains(result.android, Str("t="))) =>
                 /\ i > 0
                 /\ EndsWith(result.ios, Str("s"))
                 /\ IsPositiveNumeral(num)
                 /\ result.ios = Str("vnd.youtube://watch?v=") \o id \o From(result.ios, i)
                 /\ result.android = Str("intent://watch?v=") \o id \o From(result.ios, i)
                        \o Str("#Intent;scheme=vnd.youtube;package=com.google.android.youtube;end")

\* A video URL whose timestamp is zero in every unit was translated, and
\* the link carries no timestamp.
C8_Witness ==
    /\ Done /\ handler = "youtube"
    /\ url = Str("https://youtu.be/dQw4w9WgXcQ?t=0h0m0s")
    /\ extractTimestamp(url) = Str("0h0m0s")
    /\ result.ios = Str("vnd.youtube://watch?v=dQw4w9WgXcQ")

\* C7: for every URL the meeting handler recognizes, build assembles one
\* parameter string "confno=<id>", followed by "&pwd=<password>" only when a
\* password was captured, and embeds it in both the ios link and the android
\* intent; with no password captured neither link contains "pwd=".
\* "https://zoom.us/j/1234567890?pwd=abcdef" yields ios
\* "zoomus://zoom.us/join?confno=1234567890&pwd=abcdef".
C7_ZoomParams ==
    (Done /\ handler = "zoom") =>
        LET m == zoomMatch(url)
            params == Str("confno=") \o m[2]
                      \o (IF m[3] # Undefined THEN Str("&pwd=") \o m[3] ELSE <<>>)
        IN  /\ result.ios = Str("zoomus://zoom.us/join?") \o params
            /\ result.android = Str("intent://zoom.us/join?") \o params
                   \o Str("#Intent;scheme=zoomus;package=us.zoom.videomeetings;end")
            /\ m[3] = Undefined =>
                   (~Contains(result.ios, Str("pwd=")) /\ ~Contains(result.android, Str("pwd=")))
            /\ url = Str("https://zoom.us/j/1234567890?pwd=abcdef") =>
                   result.ios = Str("zoomus://zoom.us/join?confno=1234567890&pwd=abcdef")

\* A meeting URL with a password was translated.
C7_Witness ==
    /\ Done /\ handler = "zoom"
    /\ url = Str("https://zoom.us/j/1234567890?pwd=abcdef")
    /\ result.ios = Str("zoomus://zoom.us/join?confno=1234567890&pwd=abcdef")

\* Number of code units the percent-encoding of q has: one for each
\* unreserved character, three for each UTF-8 byte of any other code point
\* (one byte below U+0080, two below U+0800, else three, and four for a
\* surrogate pair, counted as two for each surrogate).
EncodedLen(q) ==
    Len(q)
    + 2 * Cardinality({i \in 1..Len(q) : q[i] \notin Unreserved})
    + 3 * Cardinality({i \in 1..Len(q) : q[i] >= 128})
    + 3 * Cardinality({i \in 1..Len(q) : q[i] >= 2048 /\ ~IsHigh(q[i]) /\ ~IsLow(q[i])})

\* The canonical "search by query" web URL of a query: after the fixed
\* prefix only unreserved characters and escapes in upper-case hexadecimal
\* digits, as many as the encoding of q needs, which decode to q.
IsCanonicalFor(w, q) ==
    LET prefix == Str("https://www.google.com/maps/search/?api=1&query=")
        tail == From(w, Len(prefix) + 1)
    IN  /\ StartsWith(w, prefix)
        /\ \A k \in 1..Len(tail) : tail[k] \in Unreserved \cup {37}
        /\ \A k \in 1..Len(tail) :
               tail[k] = 37 => (PctAt(tail, k) /\ tail[k + 1] \notin Lower /\ tail[k + 2] \notin Lower)
        /\ Len(tail) = EncodedLen(q)
        /\ decodeURIComponent(tail) = [ok |-> TRUE, value |-> q]

Renormalized ==
    /\ Done /\ round >= 2
    /\ prevResult.platform = "googlemaps"
    /\ parseGoogleMapsUrl(prevUrl, domainToAscii).type \in {"search", "place", "directions"}

\* C3 as stated: translating the returned webUrl again yields the same
\* platform, query, webUrl and the same ios and android links.
C3_SameLinks ==
    Renormalized =>
        /\ result.platform = prevResult.platform
        /\ result.webUrl = prevResult.webUrl
        /\ result.ios = prevResult.ios
        /\ result.android = prevResult.android

\* C3 (amended): translating the returned webUrl again yields the same
\* platform, the same derived query and the same webUrl, the second call
\* classifying it search.  When the first URL was classified search, the ios
\* and android links are the same; when place, the ios link is the same and
\* the android link differs; when directions, both links differ.
C3_SameQuery ==
    Renormalized =>
        /\ result.platform = prevResult.platform
        /\ parseGoogleMapsUrl(url, domainToAscii).type = "search"
        /\ parseGoogleMapsUrl(url, domainToAscii).query = parseGoogleMapsUrl(prevUrl, domainToAscii).query
        /\ result.webUrl = prevResult.webUrl
        /\ result.webUrl = url
        /\ parseGoogleMapsUrl(prevUrl, domainToAscii).type = "search" =>
               (result.ios = prevResult.ios /\ result.android = prevResult.android)
        /\ parseGoogleMapsUrl(prevUrl, domainToAscii).type = "place" =>
               (result.ios = prevResult.ios /\ result.android # prevResult.android)
        /\ parseGoogleMapsUrl(prevUrl, domainToAscii).type = "directions" =>
               (result.ios # prevResult.ios /\ result.android # prevResult.android)

\* A directions URL was translated twice: same webUrl, another ios link.
C3_Witness ==
    /\ Renormalized
    /\ prevUrl = Str("https://www.google.com/maps/dir/New+York/Boston%2C+MA")
    /\ result.webUrl = prevResult.webUrl
    /\ prevResult.ios = Str("comgooglemaps://?daddr=New%2BYork%20to%20Boston%2C%2BMA")
    /\ result.ios = Str("comgooglemaps://?q=New%2BYork%20to%20Boston%2C%2BMA")

\* C4: for a place-shaped maps URL the derived query is the decoded place
\* name ("+" and escapes decoded) and a zoom of unit z is passed through:
\* "https://www.google.com/maps/place/Eiffel+Tower/@48.8584,2.2945,17z"
\* yields platform googlemaps, query "Eiffel Tower" in the ios link and the
\* webUrl, and zoom 17.
C4_PlaceNameDecoded ==
    (Done /\ handler = "googlemaps" /\ parseGoogleMapsUrl(url, domainToAscii).type = "place") =>
        LET g == placeMatch(url)
        IN  /\ result.platform = "googlemaps"
            /\ result.ios = Str("comgooglemaps://?q=") \o encodeURIComponent(FormDecode(g[1]))
            /\ result.webUrl = SearchUrl(FormDecode(g[1]))
            /\ g[5] = Str("z") => EndsWith(result.android, Str("%2C") \o g[4] \o Str("z;end"))
            /\ url = Str("https://www.google.com/maps/place/Eiffel+Tower/@48.8584,2.2945,17z") =>
                   /\ result.ios = Str("comgooglemaps://?q=Eiffel%20Tower")
                   /\ result.webUrl
                        = Str("https://www.google.com/maps/search/?api=1&query=Eiffel%20Tower")

\* The fixed parts of an Android intent URI that carries an action, a
\* category and a browser fallback.
IntentAction ==
    Str(";action=android.intent.action.VIEW;category=android.intent.category.BROWSABLE;S.browser_fallback_url=")

\* Whether a is "intent://<x>#Intent;scheme=<scheme>;package=<package>"
\* followed by the action, the category and a non-empty percent-encoded
\* fallback URL, then ";end" (no "#" in <x>, no ";" in <scheme>, <package>
\* and the fallback).
FullIntent(a) ==
    LET i == IndexFrom(a, Str("#"), 1)
        j == IndexFrom(a, Str(";package="), i)
        k == IndexFrom(a, IntentAction, j)
        f == SubSeq(a, k + Len(IntentAction), Len(a) - Len(";end"))
    IN  /\ StartsWith(a, Str("intent://"))
        /\ i > Len("intent://") + 1
        /\ At(a, i, Str("#Intent;scheme="))
        /\ j > i + Len("#Intent;scheme=")
        /\ \A n \in (i + Len("#Intent;scheme="))..(j - 1) : a[n] # 59
        /\ k > j + Len(";package=")
        /\ \A n \in (j + Len(";package="))..(k - 1) : a[n] # 59
        /\ EndsWith(a, Str(";end"))
        /\ f # <<>>
        /\ \A n \in 1..Len(f) : f[n] \in Unreserved \cup {37}

\* C5: every Android intent URI any handler's build emits has the form
\* "intent://<authority-and-query>#Intent;scheme=<scheme>;package=<package-id>"
\* ";action=android.intent.action.VIEW;category=android.intent.category.BROWSABLE"
\* ";S.browser_fallback_url=<percent-encoded-fallback-url>;end".
C5_AllIntentsFull ==
    (Done /\ handler \in Handlers /\ result # BuildThrows
          /\ StartsWith(result.android, Str("intent://"))) =>
        FullIntent(result.android)

\* Whether u satisfies each of the five maps shapes: (a) a non-empty
\* "query" parameter, (b) a search path, (c) a directions path, (d) a place
\* path with coordinates, (e) a bare coordinates path.
ShapeA(u) ==
    /\ ParseUrl(u, domainToAscii).ok
    /\ SearchParamsGet(ParseUrl(u, domainToAscii).query, Str("query")) # NoMatch
    /\ SearchParamsGet(ParseUrl(u, domainToAscii).query, Str("query"))[1] # <<>>

ShapeB(u) == searchMatch(u) # NoMatch

ShapeC(u) == dirMatch(u) # NoMatch

ShapeD(u) == placeMatch(u) # NoMatch

ShapeE(u) == coordsMatch(u) # NoMatch

\* The classification of the highest-precedence shape u satisfies.
HighestShape(u) ==
    IF ShapeA(u) \/ ShapeB(u) THEN "search"
    ELSE IF ShapeC(u) THEN "directions"
    ELSE IF ShapeD(u) THEN "place"
    ELSE IF ShapeE(u) THEN "coords"
    ELSE "unknown"

\* C6: a URL on a maps host that matches none of the five maps shapes is
\* classified unknown: the maps handler does not claim it, and the result
\* has platform unknown.
C6_NoShapeIsUnknown ==
    (Done /\ googlemapsMatch(url) # NoMatch /\ HighestShape(url) = "unknown") =>
        /\ handler # "googlemaps"
        /\ result.platform = "unknown"

\* C9: parseGoogleMapsUrl returns, for any maps URL, the
\* classification of the highest-precedence shape it satisfies, and unknown
\* for a URL that satisfies none.
C9_HighestShapeWins ==
    (Done /\ handler = "googlemaps") => parseGoogleMapsUrl(url, domainToAscii).type = HighestShape(url)

\* C10: the platform handlers are domain-disjoint: for every URL at most one
\* of youtubeHandler.match, zoomHandler.match and googlemapsHandler.match
\* returns a match, so the platform dispatch returns is the same under every
\* registry order.
C10_HandlersDisjoint ==
    Done =>
        /\ Cardinality({h \in Handlers : MatchOf(h, url) # NoMatch}) <= 1
        /\ \A o \in Orders : FirstMatch(url, o) = handler

====
